---- MODULE Spec2Model ----
(***************************************************************************)
(* A model of pysync's per-file synchronisation strategies                 *)
(* (src/src/pysync/strategy.py) and of the rolling checksum                *)
(* (src/src/pysync/rolling_checksum.py).                                   *)
(*                                                                         *)
(* Files are byte sequences.  Python's 0-based half-open slices            *)
(* buffer[a:b] are written Slice(buffer, a, b).  hashlib.md5 is modelled   *)
(* as a collision-free digest: two blocks have the same strong digest     *)
(* exactly when they have the same bytes.  filecmp.cmp(shallow=False) is   *)
(* modelled as the byte comparison it documents.                           *)
(***************************************************************************)
EXTENDS Integers, Sequences, FiniteSets, TLC

VARIABLES
  variant,       \* which strategy class the instance is: "copy" | "delta"
  block_size,    \* DeltaStrategy.block_size
  inputs,        \* the contents a source file handed to sync_file may have
  paths,         \* the destination files sync_file is called for
  stats,         \* DeltaStrategy._stats: canonical path -> SyncStats | NoStats
  fs,            \* the file system: file name -> [kind, data, meta]
  pc,            \* position inside sync_file ("idle" between calls)
  err,           \* the exception the call ended with and the operation that
                 \* raised it, "none" otherwise
  source,        \* the source file of the running call: [data, meta]
  destination,   \* the destination path of the running call
  destination_path, \* sync_file's destination_path: destination.resolve()
  dst0,          \* history: the destination entry when the call began
  cmp_calls,     \* history: calls of filecmp.cmp made by the running call
  prevSrc,       \* history: source bytes of the directly preceding successful call
  last_ok,       \* history: file -> source length of the most recent successful
                 \* delta call for it, -1 when there was none
  src_buf,       \* _write_delta's src_buf
  dst_buf,       \* _write_delta's dst_buf
  bufs,          \* the read buffers (mmaps) currently open
  signatures,    \* _write_delta's signatures: weak digest -> list of signatures
  temp_path,     \* _write_delta's temp_path ("" until the temp file exists)
  tmp_open,      \* whether the temp file handle is still open
  idx,           \* _write_delta's idx
  last_emitted,  \* _write_delta's last_emitted
  checksum,      \* the RollingChecksum object: [block_size, s1, s2]
  literal_bytes, \* _write_delta's literal_bytes
  lit_out,       \* history: bytes appended to the writer by literal spans
  copy_out,      \* history: bytes appended to the writer by block copies
  disk,          \* sync(): the trees on disk: location -> node
  disk0,         \* history: the disk when sync() was called
  dry_run,       \* sync()'s dry_run argument
  wpc,           \* position inside sync() ("off" when no sync is modelled)
  werr,          \* the exception sync() ended with, "none" otherwise
  walk_queue,    \* os.walk: the source directories still to be yielded
  root_path,     \* _copy_missing_and_updated's root_path
  dirnames,      \* the dirnames of root_path not yet handled
  filenames,     \* the filenames of root_path not yet handled
  tracked_dirs,  \* sync()'s tracked_dirs
  metadata_targets, \* _copy_missing_and_updated's metadata_targets, as pairs
  reports,       \* history: the actions passed to the reporter, in order
  calls,         \* history: the strategy.sync_file calls made, in order
  rm_items,      \* _remove_extraneous: the listed items not yet handled
  args,          \* main(): the parsed command line
  cpc,           \* position inside main() ("off" when no CLI run is modelled)
  cerr,          \* the exception main() caught, "none" otherwise
  exit_status,   \* what main() returned, -1 while it runs
  console,       \* the lines the console reporter has printed
  performed,     \* history: changes the CLI's sync() call made to the destination
  first          \* the dry_run flag and the reports of an earlier sync() call
                 \* on the same trees

vars == << variant, block_size, inputs, paths, stats, fs, pc, err, source,
           destination, destination_path, dst0, cmp_calls, prevSrc, last_ok, src_buf, dst_buf, bufs, signatures, temp_path, tmp_open,
           idx, last_emitted, checksum, literal_bytes, lit_out, copy_out,
           disk, disk0, dry_run, wpc, werr, walk_queue, root_path, dirnames,
           filenames, tracked_dirs, metadata_targets, reports, calls, rm_items,
           args, cpc, cerr, exit_status, console, performed, first >>

\* The state of main().
cliVars == << args, cpc, cerr, exit_status, console, performed >>

\* The state of sync(), and the state of one strategy instance and its
\* sync_file call.
treeVars == << disk, disk0, dry_run, wpc, werr, walk_queue, root_path, dirnames,
              filenames, tracked_dirs, metadata_targets, reports, calls,
              rm_items, first >>
fileVars == << variant, block_size, inputs, paths, stats, fs, pc, err, source,
              destination, destination_path, dst0, cmp_calls, prevSrc, last_ok,
              src_buf, dst_buf, bufs, signatures, temp_path, tmp_open, idx,
              last_emitted, checksum, literal_bytes, lit_out, copy_out >>

---------------------------------------------------------------------------
(* Bounds of the model.                                                    *)

\* Longest file content of the sync_file model.
MaxLen == 3
\* Largest block size a DeltaStrategy is constructed with.
MaxBlock == 3
\* Longest byte sequence of the exhaustive rolling-checksum inputs.
MaxRollLen == 4
\* Longest repeating pattern of the long rolling-checksum inputs.
MaxPeriod == 2
\* Number of rolls performed over a long rolling-checksum input.
MaxRolls == 3

\* Byte values of file contents in the sync_file model.
Alphabet == {97, 98}
\* Byte values of the rolling-checksum inputs (both ends of the byte range).
RollBytes == {0, 1, 254, 255}

---------------------------------------------------------------------------
(* Sequences and Python slices.                                            *)

Min(a, b) == IF a <= b THEN a ELSE b
Max(a, b) == IF a >= b THEN a ELSE b

\* buffer[start:end] for 0 <= start, with Python's clipping to the length.
Slice(buffer, start, end) ==
  LET e == Min(end, Len(buffer))
  IN  IF e <= start THEN << >> ELSE SubSeq(buffer, start + 1, e)

\* All sequences over S of length n, and of length at most n.
RECURSIVE SeqsOfLen(_, _)
SeqsOfLen(S, n) ==
  IF n = 0 THEN { << >> }
  ELSE { Append(s, x) : s \in SeqsOfLen(S, n - 1), x \in S }

SeqsUpTo(S, n) == UNION { SeqsOfLen(S, k) : k \in 0..n }

\* pattern repeated up to length n.
Periodic(pattern, n) == [i \in 1..n |-> pattern[((i - 1) % Len(pattern)) + 1]]

---------------------------------------------------------------------------
(* rolling_checksum.py                                                     *)

MOD == 65536

\* Sum of weight * block[i] for i in lo..hi, where the weight is bs - i + 1
\* (weighted) or 1; added up by halves so that the evaluation depth stays
\* logarithmic in the window length.
RECURSIVE SumRange(_, _, _, _, _)
SumRange(block, bs, weighted, lo, hi) ==
  IF lo > hi THEN 0
  ELSE IF lo = hi THEN (IF weighted THEN bs - lo + 1 ELSE 1) * block[lo]
  ELSE LET mid == (lo + hi) \div 2
       IN  SumRange(block, bs, weighted, lo, mid)
           + SumRange(block, bs, weighted, mid + 1, hi)

\* sum(block)
SumBytes(block, n) == SumRange(block, 0, FALSE, 1, n)

\* sum((block_size - idx + 1) * byte for idx, byte in enumerate(block, start=1))
WeightedSum(block, bs, n) == SumRange(block, bs, TRUE, 1, n)

\* RollingChecksum.__init__(block, block_size)
RollingChecksum(block, bs) ==
  [ block_size |-> bs,
    s1 |-> SumBytes(block, Len(block)) % MOD,
    s2 |-> WeightedSum(block, bs, Len(block)) % MOD ]

\* RollingChecksum.digest(): (s2 << 16) | s1.  Both sums are below 2^16, so
\* the 32-bit digest is written as the pair of its high and low halves (the
\* number itself can exceed the model checker's integers).
Digest(c) == << c.s2, c.s1 >>

\* A roll whose second sum is updated with the old first sum.
RollStale(c, out_byte, in_byte) ==
  [ block_size |-> c.block_size,
    s1 |-> (c.s1 - out_byte + in_byte) % MOD,
    s2 |-> (c.s2 - c.block_size * out_byte + c.s1) % MOD ]

\* RollingChecksum.roll(out_byte, in_byte)
Roll(c, out_byte, in_byte) ==
  LET s1 == (c.s1 - out_byte + in_byte) % MOD
  IN  [ block_size |-> c.block_size,
        s1 |-> s1,
        s2 |-> (c.s2 - c.block_size * out_byte + s1) % MOD ]

---------------------------------------------------------------------------
(* strategy.py: block signatures, the index and the writer.                *)

LITERAL_CHUNK_SIZE == 1048576

\* hashlib.md5(block).digest(), collision-free: the digest stands for the
\* bytes it was computed from.
MD5(block) == << "md5", block >>

\* _BlockSignature(strong, offset, length)
BlockSignature(strong, offset, length) ==
  [ strong |-> strong, offset |-> offset, length |-> length ]

\* A setdefault that replaces the candidate list instead of appending.
SetDefaultReplace(sigs, weak, sig) ==
  [ w \in (DOMAIN sigs) \cup {weak} |->
      IF w = weak THEN << sig >> ELSE sigs[w] ]

\* signatures.setdefault(weak, []).append(sig)
SetDefaultAppend(sigs, weak, sig) ==
  [ w \in (DOMAIN sigs) \cup {weak} |->
      IF w = weak
      THEN Append(IF weak \in DOMAIN sigs THEN sigs[weak] ELSE << >>, sig)
      ELSE sigs[w] ]

\* The while loop of _index_destination_blocks, from `offset` on.
RECURSIVE IndexFrom(_, _, _, _)
IndexFrom(buffer, bs, offset, sigs) ==
  IF ~(offset < Len(buffer)) THEN sigs
  ELSE LET end   == Min(offset + bs, Len(buffer))
           block == Slice(buffer, offset, end)
       IN  IF block = << >> THEN sigs
           ELSE IndexFrom(buffer, bs, offset + bs,
                  SetDefaultAppend(sigs,
                    Digest(RollingChecksum(block, Len(block))),
                    BlockSignature(MD5(block), offset, Len(block))))

\* An index that stops after the first destination block.
IndexFirstBlockOnly(buffer, bs) ==
  IF Len(buffer) = 0 THEN << >> ELSE IndexFrom(Slice(buffer, 0, bs), bs, 0, << >>)

\* DeltaStrategy._index_destination_blocks(buffer)
IndexDestinationBlocks(buffer, bs) ==
  IF Len(buffer) = 0 THEN << >> ELSE IndexFrom(buffer, bs, 0, << >>)

NoMatch == [ strong |-> << >>, offset |-> -1, length |-> -1 ]

\* The for loop of _find_match over the candidate list.
RECURSIVE FirstStrong(_, _, _)
FirstStrong(candidates, strong, i) ==
  IF i > Len(candidates) THEN NoMatch
  ELSE IF candidates[i].strong = strong THEN candidates[i]
  ELSE FirstStrong(candidates, strong, i + 1)

\* A lookup that trusts the weak checksum alone.
FindMatchWeakOnly(sigs, weak_checksum, window) ==
  IF weak_checksum \notin DOMAIN sigs THEN NoMatch
  ELSE sigs[weak_checksum][1]

\* DeltaStrategy._find_match(signatures, weak_checksum, window)
FindMatch(sigs, weak_checksum, window) ==
  IF weak_checksum \notin DOMAIN sigs THEN NoMatch
  ELSE IF sigs[weak_checksum] = << >> THEN NoMatch
  ELSE FirstStrong(sigs[weak_checksum], MD5(window), 1)

\* The while loop of _write_slice: what is written, and the count returned.
RECURSIVE WriteChunks(_, _, _, _)
WriteChunks(buffer, chunk_start, end, acc) ==
  IF ~(chunk_start < end) THEN acc
  ELSE LET chunk_end == Min(chunk_start + LITERAL_CHUNK_SIZE, end)
       IN  WriteChunks(buffer, chunk_end, end,
             [ data    |-> acc.data \o Slice(buffer, chunk_start, chunk_end),
               written |-> acc.written + (chunk_end - chunk_start) ])

\* A _write_slice that returns the number of chunks written, not of bytes.
WriteSliceCountsChunks(buffer, start, end) ==
  IF end <= start THEN [ data |-> << >>, written |-> 0 ]
  ELSE [ data    |-> WriteChunks(buffer, start, end,
                                 [ data |-> << >>, written |-> 0 ]).data,
         written |-> 1 ]

\* DeltaStrategy._write_slice(writer, buffer, start, end)
WriteSlice(buffer, start, end) ==
  IF end <= start THEN [ data |-> << >>, written |-> 0 ]
  ELSE WriteChunks(buffer, start, end, [ data |-> << >>, written |-> 0 ])

\* A _copy_block that copies from the offset to the end of the buffer.
CopyBlockToEnd(buffer, offset, length) ==
  WriteSlice(buffer, offset, Len(buffer))

\* DeltaStrategy._copy_block(writer, buffer, offset, length)
CopyBlock(buffer, offset, length) ==
  WriteSlice(buffer, offset, offset + Max(length, 0))

\* SyncStats(total_bytes, bytes_transferred, bytes_reused)
SyncStats(total, transferred, reused) ==
  [ total_bytes |-> total, bytes_transferred |-> transferred,
    bytes_reused |-> reused ]

NoStats == [ total_bytes |-> -1, bytes_transferred |-> -1, bytes_reused |-> -1 ]

\* A record that keeps an entry the path already has (dict.setdefault).
RecordStatsKeepFirst(ledger, path, total, transferred, reused) ==
  IF ledger[path] # NoStats THEN ledger
  ELSE [ ledger EXCEPT ![path] = SyncStats(total, transferred, reused) ]

\* DeltaStrategy._record_stats(destination, total, transferred, reused)
RecordStats(ledger, path, total, transferred, reused) ==
  [ ledger EXCEPT ![path] = SyncStats(total, transferred, reused) ]

\* reused_bytes = src_len - literal_bytes, not clamped at zero and off by
\* the last literal byte.
ReusedBytesBug(src_len, literal) == src_len - literal - 1

\* reused_bytes = max(src_len - literal_bytes, 0)
ReusedBytes(src_len, literal) == Max(src_len - literal, 0)

\* The ledger entry of the missing-destination path written as all reused.
StatsMissingBug(size) == SyncStats(size, 0, size)

\* self._record_stats(destination_path, size, size, 0)
StatsMissing(size) == SyncStats(size, size, 0)

\* The ledger entry of the identical-content path written as all transferred.
StatsSameBug(src_size) == SyncStats(src_size, src_size, 0)

\* self._record_stats(destination_path, src_size, 0, src_size)
StatsSame(src_size) == SyncStats(src_size, 0, src_size)

---------------------------------------------------------------------------
(* The file system.                                                        *)

\* Destination files (all in one directory) and the sibling temp file's name.
Paths == { "dst", "dst2" }
TmpName == "tmp"
Files == Paths \cup { TmpName }

\* The canonical path of a file of the directory, as a sequence of
\* components relative to the directory.
Key(file) == << file >>

\* The path arguments that name a file: plain, through '.', through '..'.
Spellings(file) ==
  { << file >>, << ".", file >>, << "sub", "..", file >> }

\* Collapsing '.' and '..' components, left to right.
RECURSIVE Collapse(_, _)
Collapse(parts, stack) ==
  IF parts = << >> THEN stack
  ELSE LET h == Head(parts)
       IN  Collapse(Tail(parts),
             IF h = "." THEN stack
             ELSE IF h = ".."
                  THEN (IF stack = << >> THEN stack
                        ELSE SubSeq(stack, 1, Len(stack) - 1))
                  ELSE Append(stack, h))

\* A resolve that returns the path as it was spelled.
ResolveUncollapsed(path) == path

\* Path.resolve() (no component of the model's paths is a symbolic link)
Resolve(path) == Collapse(path, << >>)

\* DeltaStrategy.get_stats_for(path): self._stats.get(path.resolve()), with
\* NoStats for None.
GetStatsFor(ledger, path) == ledger[Resolve(path)]

\* The keys the ledger dictionary may be given.
LedgerKeys == UNION { Spellings(f) : f \in Paths }

SrcMeta == "src"

Absent == [ kind |-> "absent", data |-> << >>, meta |-> "none" ]
RegularFile(d, m) == [ kind |-> "file", data |-> d, meta |-> m ]
\* A symbolic link; data is the content of the file it points to.
Symlink(d) == [ kind |-> "symlink", data |-> d, meta |-> "link" ]
\* A symbolic link whose target does not exist.
DanglingLink == [ kind |-> "symlink", data |-> << >>, meta |-> "dangling" ]

\* A block whose weak checksum for block size 3 equals that of <<98, 97, 98>>
\* (s1 = 293, s2 = 586) though the bytes differ.
Collider == << 97, 99, 97 >>

\* File contents: every sequence over the alphabet up to the bound, and the
\* colliding block.
Contents == SeqsUpTo(Alphabet, MaxLen) \cup { Collider }

\* The symlink check dropped.
IsSymlinkNever(p) == FALSE
\* destination.is_symlink()
IsSymlink(p) == fs[p].kind = "symlink"
\* destination.exists(): follows links, so a dangling link does not exist.
Exists(p) == fs[p].kind # "absent" /\ fs[p] # DanglingLink
\* The comparison skipped: every existing destination is rewritten.
FileCmpNever(a, b) == FALSE
\* filecmp.cmp(source, destination, shallow=False)
FileCmp(a, b) == a = b
\* The truncation skipped.
NeedsTruncateNever(size) == FALSE
\* destination.stat().st_size != 0
NeedsTruncate(size) == size # 0

\* The writer bound to the destination itself instead of a temp file.
WriterInPlace == destination
\* The file the writer `tmp` of _write_delta writes to.
WriterPath == temp_path

\* An unlink that is forgotten: the file stays.
UnlinkSkipped(files, path) == [ files |-> files, exc |-> "none" ]

\* Path(temp_path).unlink(missing_ok=True), and os.unlink(temp_path) under
\* suppress(FileNotFoundError): the file is removed; when it is already
\* absent nothing is raised.
UnlinkTolerant(files, path) ==
  IF files[path].kind = "absent"
  THEN [ files |-> files, exc |-> "none" ]
  ELSE [ files |-> [ files EXCEPT ![path] = Absent ], exc |-> "none" ]

\* writer.write(bytes): append to the writer's file.
WriterAppend(files, bytes) ==
  [ files EXCEPT ![WriterPath].data = @ \o bytes ]

---------------------------------------------------------------------------
(* State between calls.                                                    *)

NoSource == [ data |-> << >>, meta |-> "none" ]
NoChecksum == [ block_size |-> 0, s1 |-> 0, s2 |-> 0 ]
NoPrev == [ src |-> << >>, dst |-> "none" ]

NoPath == << >>
NoCalls == [ f \in Paths |-> -1 ]

\* No sync() is running: the strategy instance is used on its own.
NoFirst == [ ran |-> FALSE, dry_run |-> FALSE, reports |-> << >> ]

TreeOff ==
  /\ first = NoFirst
  /\ disk = << >> /\ disk0 = << >> /\ dry_run = FALSE
  /\ wpc = "off" /\ werr = "none"
  /\ walk_queue = << >> /\ root_path = << >> /\ dirnames = {} /\ filenames = {}
  /\ tracked_dirs = {} /\ metadata_targets = {}
  /\ reports = << >> /\ calls = << >> /\ rm_items = {}

\* argparse's namespace: an option that was not given is None, written << >>;
\* a given block size n is << n >>.
NoArgs == [ strategy |-> "none", block_size |-> << >>, dry_run |-> FALSE,
            verbose |-> FALSE ]

\* No command line is running: the library is used on its own.
CliOff ==
  /\ args = NoArgs /\ cpc = "off" /\ cerr = "none" /\ exit_status = -1
  /\ console = << >> /\ performed = 0

LocalsIdle ==
  /\ source = NoSource /\ destination = "none" /\ dst0 = Absent
  /\ destination_path = NoPath /\ cmp_calls = 0
  /\ src_buf = << >> /\ dst_buf = << >> /\ bufs = {} /\ signatures = << >>
  /\ temp_path = "" /\ tmp_open = FALSE /\ idx = 0 /\ last_emitted = 0
  /\ checksum = NoChecksum /\ literal_bytes = 0
  /\ lit_out = 0 /\ copy_out = 0

callVars == << source, destination, destination_path, dst0, cmp_calls >>
histVars == << prevSrc, last_ok >>
scanVars == << src_buf, dst_buf, bufs, signatures, temp_path, tmp_open, idx,
               last_emitted, checksum, literal_bytes, lit_out, copy_out >>
config == << variant, block_size, inputs, paths >>

\* The files of the spec's end-to-end scenarios A and F (block size 4).
ScenarioBlock == 4
ScenarioADst == << 65,65,65,65, 66,66,66,66, 67,67,67,67, 68,68,68,68, 69,69,69,69 >>
ScenarioASrc == << 65,65,65,65, 90,90,90,90, 67,67,67,67, 68,68,68,68, 69,69,69,69 >>
ScenarioFDst == << 65,66,67,68, 69,70,71,72 >>
ScenarioFSrc == << 88,89, 65,66,67,68, 69,70,71,72 >>

\* The destination entries a call may find.
Entries(contents) ==
  { Absent, DanglingLink } \cup { Symlink(d) : d \in contents }
  \cup { RegularFile(d, m) : d \in contents, m \in { "old", SrcMeta } }

\* A directory whose only entry is "dst".
OneFile(e) == [ f \in Files |-> IF f = "dst" THEN e ELSE Absent ]

\* The sources and the initial destinations of the two-file configuration.
PairInputs == { << 97 >>, << 98, 97 >> }
PairEntries == { Absent, RegularFile(<< 98 >>, "old") }

\* DeltaStrategy.__init__ / FileCopierStrategy(): a fresh strategy instance
\* over an arbitrary destination; either one file with every bounded
\* content, or one file with the contents of the scenarios, or two files
\* with a few contents.
Init ==
  /\ \/ /\ \/ variant = "copy" /\ block_size = 0
           \/ variant = "delta" /\ block_size \in 1..MaxBlock
        /\ inputs = Contents
        /\ paths = { "dst" }
        /\ fs \in { OneFile(e) : e \in Entries(Contents) }
     \/ /\ variant = "delta" /\ block_size = ScenarioBlock
        /\ inputs = { ScenarioASrc, ScenarioFSrc }
        /\ paths = { "dst" }
        /\ fs \in { OneFile(e) : e \in Entries({ ScenarioADst, ScenarioFDst }) }
     \/ /\ variant = "delta" /\ block_size = 1
        /\ inputs = PairInputs
        /\ paths = Paths
        /\ fs \in { f \in [ Files -> PairEntries ] : f[TmpName] = Absent }
  /\ stats = [ k \in LedgerKeys |-> NoStats ]
  /\ pc = "idle" /\ err = "none" /\ prevSrc = NoPrev /\ last_ok = NoCalls
  /\ LocalsIdle
  /\ TreeOff /\ CliOff

\* sync_file(source, destination) is entered; destination names file p.
Enter(S, p) ==
  /\ pc = "idle"
  /\ source' = [ data |-> S, meta |-> SrcMeta ]
  /\ destination' = p
  /\ dst0' = fs[p]

\* destination_path = destination.resolve(), for any spelling of the argument.
ResolveDestination(p) ==
  \E a \in Spellings(p) : destination_path' = Resolve(a)

\* The locals of a frame that an exception has left are gone.
ScanReset ==
  /\ src_buf' = << >> /\ dst_buf' = << >> /\ bufs' = {} /\ signatures' = << >>
  /\ temp_path' = "" /\ tmp_open' = FALSE /\ idx' = 0 /\ last_emitted' = 0
  /\ checksum' = NoChecksum /\ literal_bytes' = 0
  /\ lit_out' = 0 /\ copy_out' = 0

Raise(kind) == pc' = "raised" /\ err' = kind /\ ScanReset

---------------------------------------------------------------------------
(* shutil.copy2(source, destination): open for writing (create or          *)
(* truncate), copy the bytes, then copystat.                               *)

Copy2Open ==
  /\ pc = "copy2_open"
  /\ fs' = [ fs EXCEPT ![destination] = RegularFile(<< >>, "fresh") ]
  /\ pc' = "copy2"
  /\ UNCHANGED << cliVars, treeVars, config, stats, err, callVars, histVars, scanVars >>

Copy2Write ==
  /\ pc = "copy2"
  /\ Len(fs[destination].data) < Len(source.data)
  /\ \E n \in 1..(Len(source.data) - Len(fs[destination].data)) :
       fs' = [ fs EXCEPT ![destination].data =
                 SubSeq(source.data, 1, Len(@) + n) ]
  /\ UNCHANGED << cliVars, treeVars, config, stats, pc, err, callVars, histVars, scanVars >>

Copy2Stat ==
  /\ pc = "copy2"
  /\ Len(fs[destination].data) = Len(source.data)
  /\ fs' = [ fs EXCEPT ![destination].meta = source.meta ]
  /\ pc' = IF variant = "delta" THEN "missing_record" ELSE "done"
  /\ UNCHANGED << cliVars, treeVars, config, stats, err, callVars, histVars, scanVars >>

Copy2Fail ==
  /\ pc \in { "copy2_open", "copy2" }
  /\ Raise("OSError: copy2")
  /\ UNCHANGED << cliVars, treeVars, config, stats, fs, callVars, histVars >>

---------------------------------------------------------------------------
(* FileCopierStrategy.sync_file                                            *)

CopierRefuseSymlink ==
  /\ variant = "copy"
  /\ \E S \in inputs, p \in paths :
       /\ Enter(S, p)
       /\ IsSymlink(p)
  /\ destination_path' = NoPath /\ cmp_calls' = 0
  /\ Raise("SyncError")
  /\ UNCHANGED << cliVars, treeVars, config, stats, fs, histVars >>

CopierSkip ==
  /\ variant = "copy"
  /\ \E S \in inputs, p \in paths :
       /\ Enter(S, p)
       /\ ~IsSymlink(p)
       /\ ~(~Exists(p) \/ ~FileCmp(S, fs[p].data))
  /\ destination_path' = NoPath /\ cmp_calls' = 1
  /\ pc' = "done"
  /\ UNCHANGED << cliVars, treeVars, config, stats, fs, err, histVars, scanVars >>

CopierCopy ==
  /\ variant = "copy"
  /\ \E S \in inputs, p \in paths :
       /\ Enter(S, p)
       /\ ~IsSymlink(p)
       /\ ~Exists(p) \/ ~FileCmp(S, fs[p].data)
       \* `or` evaluates filecmp.cmp only when the destination exists
       /\ cmp_calls' = IF Exists(p) THEN 1 ELSE 0
  /\ destination_path' = NoPath
  /\ pc' = "copy2_open"
  /\ UNCHANGED << cliVars, treeVars, config, stats, fs, err, histVars, scanVars >>

---------------------------------------------------------------------------
(* DeltaStrategy.sync_file: the checks and the fast paths.                 *)

DeltaRefuseSymlink ==
  /\ variant = "delta"
  /\ \E S \in inputs, p \in paths :
       /\ Enter(S, p)
       /\ IsSymlink(p)
  /\ destination_path' = NoPath /\ cmp_calls' = 0
  /\ Raise("SyncError")
  /\ UNCHANGED << cliVars, treeVars, config, stats, fs, histVars >>

\* if not destination.exists(): shutil.copy2(source, destination) ...
DeltaMissing ==
  /\ variant = "delta"
  /\ \E S \in inputs, p \in paths :
       /\ Enter(S, p)
       /\ ~IsSymlink(p)
       /\ ResolveDestination(p)
       /\ ~Exists(p)
  /\ cmp_calls' = 0
  /\ pc' = "copy2_open"
  /\ UNCHANGED << cliVars, treeVars, config, stats, fs, err, histVars, scanVars >>

\* ... size = source.stat().st_size; self._record_stats(path, size, size, 0)
DeltaMissingRecord ==
  /\ pc = "missing_record"
  /\ stats' = [ stats EXCEPT ![destination_path] = StatsMissing(Len(source.data)) ]
  /\ pc' = "done"
  /\ UNCHANGED << cliVars, treeVars, config, fs, err, callVars, histVars, scanVars >>

\* if src_size == 0: (destination.exists() holds here)
DeltaEmptySource ==
  /\ variant = "delta"
  /\ \E S \in inputs, p \in paths :
       /\ Enter(S, p)
       /\ ~IsSymlink(p)
       /\ ResolveDestination(p)
       /\ Exists(p)
       /\ Len(S) = 0
       /\ cmp_calls' = 0
       /\ pc' = IF NeedsTruncate(Len(fs[p].data)) THEN "truncate"
                ELSE "copystat_empty"
  /\ UNCHANGED << cliVars, treeVars, config, stats, fs, err, histVars, scanVars >>

\* destination.write_bytes(b'')
DeltaTruncate ==
  /\ pc = "truncate"
  /\ fs' = [ fs EXCEPT ![destination] = RegularFile(<< >>, "fresh") ]
  /\ pc' = "copystat_empty"
  /\ UNCHANGED << cliVars, treeVars, config, stats, err, callVars, histVars, scanVars >>

\* shutil.copystat(...); self._record_stats(destination_path, 0, 0, 0)
DeltaEmptyFinish ==
  /\ pc = "copystat_empty"
  /\ fs' = [ fs EXCEPT ![destination].meta = source.meta ]
  /\ stats' = RecordStats(stats, destination_path, 0, 0, 0)
  /\ pc' = "done"
  /\ UNCHANGED << cliVars, treeVars, config, err, callVars, histVars, scanVars >>

\* if filecmp.cmp(source, destination, shallow=False):
DeltaSame ==
  /\ variant = "delta"
  /\ \E S \in inputs, p \in paths :
       /\ Enter(S, p)
       /\ ~IsSymlink(p)
       /\ ResolveDestination(p)
       /\ Exists(p)
       /\ Len(S) # 0
       /\ FileCmp(S, fs[p].data)
  /\ cmp_calls' = 1
  /\ pc' = "copystat_same"
  /\ UNCHANGED << cliVars, treeVars, config, stats, fs, err, histVars, scanVars >>

\* shutil.copystat(...); self._record_stats(path, src_size, 0, src_size)
DeltaSameFinish ==
  /\ pc = "copystat_same"
  /\ fs' = [ fs EXCEPT ![destination].meta = source.meta ]
  /\ stats' = [ stats EXCEPT ![destination_path] = StatsSame(Len(source.data)) ]
  /\ pc' = "done"
  /\ UNCHANGED << cliVars, treeVars, config, err, callVars, histVars, scanVars >>

\* Neither fast path applies: the reconstruction path is taken.
DeltaReconstruct ==
  /\ variant = "delta"
  /\ \E S \in inputs, p \in paths :
       /\ Enter(S, p)
       /\ ~IsSymlink(p)
       /\ ResolveDestination(p)
       /\ Exists(p)
       /\ Len(S) # 0
       /\ ~FileCmp(S, fs[p].data)
  /\ cmp_calls' = 1
  /\ pc' = "open_buffers"
  /\ UNCHANGED << cliVars, treeVars, config, stats, fs, err, histVars, scanVars >>

\* write_bytes or copystat of a fast path fails: the OSError propagates.
DeltaFastPathFail ==
  /\ pc \in { "truncate", "copystat_empty", "copystat_same" }
  /\ Raise("OSError: fast path")
  /\ UNCHANGED << cliVars, treeVars, config, stats, fs, callVars, histVars >>

---------------------------------------------------------------------------
(* DeltaStrategy.sync_file / _write_delta: reconstruction.                 *)

\* with _open_readonly_buffer(source) as src_buf: ... (destination) as
\* dst_buf: ... signatures = self._index_destination_blocks(dst_buf)
DeltaOpenBuffers ==
  /\ pc = "open_buffers"
  /\ src_buf' = source.data
  /\ IF Len(source.data) = 0
     THEN \* src_len == 0: truncate, copystat, record zeros, return
          /\ fs' = [ fs EXCEPT ![destination] = RegularFile(<< >>, source.meta) ]
          /\ stats' = RecordStats(stats, destination_path, 0, 0, 0)
          /\ pc' = "done"
          /\ UNCHANGED << dst_buf, bufs, signatures >>
     ELSE /\ dst_buf' = fs[destination].data
          /\ bufs' = { "src", "dst" }
          /\ signatures' = IndexDestinationBlocks(fs[destination].data, block_size)
          /\ pc' = "mktemp"
          /\ UNCHANGED << fs, stats >>
  /\ UNCHANGED << cliVars, treeVars, config, err, callVars, histVars, temp_path, tmp_open, idx,
                  last_emitted, checksum, literal_bytes, lit_out, copy_out >>

\* Opening or mapping a file fails, or NamedTemporaryFile fails: temp_path
\* is still '' and nothing is unlinked.
DeltaOpenFail ==
  /\ pc \in { "open_buffers", "mktemp" }
  /\ Raise("OSError: open")
  /\ UNCHANGED << cliVars, treeVars, config, stats, fs, callVars, histVars >>

\* A branch condition that forgets the source length.
LiteralOnlyEmptyIndex(sigs, src_len, bs) == sigs = << >>

\* if not signatures or src_len < block_size: the literal-only branch
LiteralOnly(sigs, src_len, bs) == sigs = << >> \/ src_len < bs

\* with tempfile.NamedTemporaryFile(delete=False, dir=destination.parent)
\* as tmp: temp_path = tmp.name; and the choice between the literal-only
\* branch and the scan.
DeltaMakeTemp ==
  /\ pc = "mktemp"
  /\ fs' = [ fs EXCEPT ![TmpName] = RegularFile(<< >>, "fresh") ]
  /\ temp_path' = TmpName
  /\ tmp_open' = TRUE
  /\ literal_bytes' = 0
  /\ IF LiteralOnly(signatures, Len(src_buf), block_size)
     THEN /\ pc' = "literal_all"
          /\ UNCHANGED << idx, last_emitted, checksum >>
     ELSE /\ idx' = 0
          /\ last_emitted' = 0
          /\ checksum' = RollingChecksum(Slice(src_buf, 0, block_size), block_size)
          /\ pc' = "scan"
  /\ UNCHANGED << cliVars, treeVars, config, stats, err, callVars, histVars, src_buf, dst_buf, bufs,
                  signatures, lit_out, copy_out >>

\* literal_bytes = self._write_slice(tmp, src_buf, 0, src_len)
DeltaLiteralAll ==
  /\ pc = "literal_all"
  /\ LET w == WriteSlice(src_buf, 0, Len(src_buf))
     IN  /\ fs' = WriterAppend(fs, w.data)
         /\ literal_bytes' = w.written
         /\ lit_out' = lit_out + Len(w.data)
  /\ pc' = "close_tmp"
  /\ UNCHANGED << cliVars, treeVars, config, stats, err, callVars, histVars, src_buf, dst_buf, bufs,
                  signatures, temp_path, tmp_open, idx, last_emitted, checksum,
                  copy_out >>

\* A loop that does not advance on a miss.
StepStuck(matched, bs) == IF matched THEN bs ELSE 0

\* idx += block_size on a match, idx += 1 on a miss
Step(matched, bs) == IF matched THEN bs ELSE 1

\* match = self._find_match(signatures, checksum.digest(), src_buf[idx:idx+B])
Probe ==
  FindMatch(signatures, Digest(checksum), Slice(src_buf, idx, idx + block_size))

\* One iteration of the while loop in which the probe matches.
ScanMatch ==
  /\ pc = "scan"
  /\ idx + block_size <= Len(src_buf)
  /\ Probe # NoMatch
  /\ LET match == Probe
         lit   == IF last_emitted < idx
                  THEN WriteSlice(src_buf, last_emitted, idx)
                  ELSE [ data |-> << >>, written |-> 0 ]
         blk   == CopyBlock(dst_buf, match.offset, match.length)
         next  == idx + Step(TRUE, block_size)
     IN  /\ fs' = WriterAppend(fs, lit.data \o blk.data)
         /\ literal_bytes' = literal_bytes + lit.written
         /\ lit_out' = lit_out + Len(lit.data)
         /\ copy_out' = copy_out + Len(blk.data)
         /\ idx' = next
         /\ last_emitted' = next
         /\ IF next + block_size <= Len(src_buf)
            THEN /\ checksum' = RollingChecksum(
                                  Slice(src_buf, next, next + block_size), block_size)
                 /\ pc' = "scan"
            ELSE /\ pc' = "flush"
                 /\ UNCHANGED checksum
  /\ UNCHANGED << cliVars, treeVars, config, stats, err, callVars, histVars, src_buf, dst_buf, bufs,
                  signatures, temp_path, tmp_open >>

\* A test for the last window that is off by one.
LastWindowMissed(i, bs, n) == i + bs > n

\* if idx + block_size >= src_len: break
LastWindow(i, bs, n) == i + bs >= n

\* buffer[i] (0-based); -1 stands for a read past the end of the buffer.
ByteAt(buffer, i) == IF i >= 0 /\ i < Len(buffer) THEN buffer[i + 1] ELSE -1

\* One iteration in which the probe fails and the window can advance:
\* checksum.roll(src_buf[idx], src_buf[idx + block_size]); idx += 1
ScanRoll ==
  /\ pc = "scan"
  /\ idx + block_size <= Len(src_buf)
  /\ Probe = NoMatch
  /\ ~LastWindow(idx, block_size, Len(src_buf))
  /\ checksum' = Roll(checksum, ByteAt(src_buf, idx),
                                ByteAt(src_buf, idx + block_size))
  /\ idx' = idx + Step(FALSE, block_size)
  /\ UNCHANGED << cliVars, treeVars, config, stats, fs, pc, err, callVars, histVars, src_buf,
                  dst_buf, bufs, signatures, temp_path, tmp_open, last_emitted,
                  literal_bytes, lit_out, copy_out >>

\* The loop ends: its condition is false, or the probe fails at the last
\* window (if idx + block_size >= src_len: break).
ScanStop ==
  /\ pc = "scan"
  /\ \/ ~(idx + block_size <= Len(src_buf))
     \/ Probe = NoMatch /\ LastWindow(idx, block_size, Len(src_buf))
  /\ pc' = "flush"
  /\ UNCHANGED << cliVars, treeVars, config, stats, fs, err, callVars, histVars, scanVars >>

\* if last_emitted < src_len: literal_bytes += self._write_slice(...)
DeltaFlush ==
  /\ pc = "flush"
  /\ LET w == IF last_emitted < Len(src_buf)
              THEN WriteSlice(src_buf, last_emitted, Len(src_buf))
              ELSE [ data |-> << >>, written |-> 0 ]
     IN  /\ fs' = WriterAppend(fs, w.data)
         /\ literal_bytes' = literal_bytes + w.written
         /\ lit_out' = lit_out + Len(w.data)
  /\ pc' = "close_tmp"
  /\ UNCHANGED << cliVars, treeVars, config, stats, err, callVars, histVars, src_buf, dst_buf, bufs,
                  signatures, temp_path, tmp_open, idx, last_emitted, checksum,
                  copy_out >>

\* The temp file is closed when the with block of _write_delta is left.
DeltaCloseTemp ==
  /\ pc = "close_tmp"
  /\ tmp_open' = FALSE
  /\ pc' = "release"
  /\ UNCHANGED << cliVars, treeVars, config, stats, fs, err, callVars, histVars, src_buf, dst_buf,
                  bufs, signatures, temp_path, idx, last_emitted, checksum,
                  literal_bytes, lit_out, copy_out >>

\* A write to the temp file (or its close) raises: except Exception:
\* Path(temp_path).unlink(missing_ok=True); raise.  The with blocks close
\* the temp file and release the buffers on the way out.
DeltaWriteFail ==
  /\ pc \in { "literal_all", "scan", "flush", "close_tmp" }
  /\ LET u == UnlinkTolerant(fs, temp_path)
     IN  /\ fs' = u.files
         /\ Raise(IF u.exc = "none" THEN "OSError: write" ELSE u.exc)
  /\ UNCHANGED << cliVars, treeVars, config, stats, callVars, histVars >>

\* Another process removes the temp file once it is written, before it is
\* closed or before it is renamed.
TempVanishes ==
  /\ pc \in { "close_tmp", "replace" }
  /\ fs[temp_path].kind # "absent"
  /\ fs' = [ fs EXCEPT ![temp_path] = Absent ]
  /\ UNCHANGED << cliVars, treeVars, config, stats, pc, err, callVars, histVars, scanVars >>

\* Buffers that stay mapped after their with blocks are left.
ReleaseBuffersLate(open) == open

\* _open_readonly_buffer's context managers exit: mm.close(), fh.close().
ReleaseBuffers(open) == {}

\* The with blocks of sync_file are left: both read buffers are released.
DeltaRelease ==
  /\ pc = "release"
  /\ bufs' = ReleaseBuffers(bufs)
  /\ pc' = "replace"
  /\ UNCHANGED << cliVars, treeVars, config, stats, fs, err, callVars, histVars, src_buf, dst_buf,
                  signatures, temp_path, tmp_open, idx, last_emitted, checksum,
                  literal_bytes, lit_out, copy_out >>

\* os.replace(temp_path, destination)
DeltaReplace ==
  /\ pc = "replace"
  /\ fs[temp_path].kind = "file"
  /\ fs' = [ fs EXCEPT ![destination] = fs[temp_path], ![temp_path] = Absent ]
  /\ pc' = "copystat"
  /\ UNCHANGED << cliVars, treeVars, config, stats, err, callVars, histVars, scanVars >>

\* os.replace raises (it must when the temp file is gone):
\* with suppress(FileNotFoundError): os.unlink(temp_path); raise
DeltaReplaceFail ==
  /\ pc = "replace"
  /\ LET u == UnlinkTolerant(fs, temp_path)
     IN  /\ fs' = u.files
         /\ Raise(IF u.exc = "none" THEN "OSError: replace" ELSE u.exc)
  /\ UNCHANGED << cliVars, treeVars, config, stats, callVars, histVars >>

\* shutil.copystat(...); reused_bytes = max(src_len - literal_bytes, 0);
\* self._record_stats(destination_path, src_len, literal_bytes, reused_bytes)
DeltaFinish ==
  /\ pc = "copystat"
  /\ fs' = [ fs EXCEPT ![destination].meta = source.meta ]
  /\ stats' = RecordStats(stats, destination_path, Len(src_buf), literal_bytes,
                          ReusedBytes(Len(src_buf), literal_bytes))
  /\ pc' = "done"
  /\ UNCHANGED << cliVars, treeVars, config, err, callVars, histVars, scanVars >>

\* A failure path that drops the entry of the destination.
LedgerOnRaiseDropped(ledger, path) == [ ledger EXCEPT ![path] = NoStats ]

\* self._stats when an exception leaves sync_file: no statement between the
\* entry of sync_file and a raise touches it.
LedgerOnRaise(ledger, path) == ledger

\* shutil.copystat after the rename raises.
DeltaCopystatFail ==
  /\ pc = "copystat"
  /\ Raise("OSError: copystat")
  /\ stats' = LedgerOnRaise(stats, destination_path)
  /\ UNCHANGED << cliVars, treeVars, config, fs, callVars, histVars >>

---------------------------------------------------------------------------
(* The call returns or raises to its caller; the next call may begin.      *)

Return ==
  /\ pc \in { "done", "raised" }
  /\ prevSrc' = IF pc = "done"
                THEN [ src |-> source.data, dst |-> destination ]
                ELSE NoPrev
  /\ pc' = "idle"
  /\ err' = "none"
  /\ last_ok' = IF pc = "done" /\ variant = "delta"
                THEN [ last_ok EXCEPT ![destination] = Len(source.data) ]
                ELSE last_ok
  /\ source' = NoSource /\ destination' = "none" /\ dst0' = Absent
  /\ destination_path' = NoPath /\ cmp_calls' = 0
  /\ src_buf' = << >> /\ dst_buf' = << >> /\ bufs' = {} /\ signatures' = << >>
  /\ temp_path' = "" /\ tmp_open' = FALSE /\ idx' = 0 /\ last_emitted' = 0
  /\ checksum' = NoChecksum /\ literal_bytes' = 0
  /\ lit_out' = 0 /\ copy_out' = 0
  /\ UNCHANGED << cliVars, treeVars, config, stats, fs >>

Next ==
  \/ CopierRefuseSymlink \/ CopierSkip \/ CopierCopy
  \/ Copy2Open \/ Copy2Write \/ Copy2Stat \/ Copy2Fail
  \/ DeltaRefuseSymlink
  \/ DeltaMissing \/ DeltaMissingRecord
  \/ DeltaEmptySource \/ DeltaTruncate \/ DeltaEmptyFinish
  \/ DeltaSame \/ DeltaSameFinish
  \/ DeltaFastPathFail
  \/ DeltaReconstruct \/ DeltaOpenBuffers \/ DeltaOpenFail \/ DeltaMakeTemp
  \/ DeltaLiteralAll \/ ScanMatch \/ ScanRoll \/ ScanStop \/ DeltaFlush
  \/ DeltaCloseTemp \/ DeltaWriteFail \/ TempVanishes \/ DeltaRelease
  \/ DeltaReplace \/ DeltaReplaceFail \/ DeltaFinish \/ DeltaCopystatFail
  \/ Return

Spec == Init /\ [][Next]_vars

---------------------------------------------------------------------------
(* Properties of sync_file, checked under Spec.                            *)

\* A delta sync_file call has returned without error.
DeltaDone == pc = "done" /\ variant = "delta"

\* ... and it took the reconstruction path (a temp file was written).
ReconDone == DeltaDone /\ temp_path # ""

\* The ledger entry of the running call's destination.
Entry == stats[Key(destination)]

(* C1: when the delta strategy's sync_file returns without error, the      *)
(* destination is a regular file whose bytes are exactly the source's, on  *)
(* every path (missing destination, empty source, identical content,      *)
(* literal-only, block matching).                                          *)
DestinationEqualsSource ==
  DeltaDone =>
    /\ fs[destination].kind = "file"
    /\ fs[destination].data = source.data

\* A call that emitted both literal spans and block copies has returned.
ReconstructedFromBlocks ==
  /\ ReconDone
  /\ lit_out > 0 /\ copy_out > 0
  /\ dst0.data # source.data
  /\ fs[destination].data = source.data

(* C3: on the reconstruction path bytes_transferred is the number of       *)
(* source bytes written as literal spans, bytes_reused the number of bytes *)
(* copied from destination blocks and total_bytes the source length; with  *)
(* block size 4, AAAABBBBCCCCDDDDEEEE -> AAAAZZZZCCCCDDDDEEEE records       *)
(* 20/4/16 and ABCDEFGH -> XYABCDEFGH records 10/2/8.                       *)
DeltaAccounting ==
  ReconDone =>
    /\ Entry.bytes_transferred = lit_out
    /\ Entry.bytes_reused = copy_out
    /\ Entry.total_bytes = Len(source.data)
    /\ (block_size = ScenarioBlock /\ dst0.data = ScenarioADst
          /\ source.data = ScenarioASrc) => Entry = SyncStats(20, 4, 16)
    /\ (block_size = ScenarioBlock /\ dst0.data = ScenarioFDst
          /\ source.data = ScenarioFSrc) => Entry = SyncStats(10, 2, 8)

\* Scenario F has run: literal XY, then the two destination blocks copied.
ScenarioFRecorded ==
  /\ ReconDone
  /\ block_size = ScenarioBlock
  /\ dst0.data = ScenarioFDst /\ source.data = ScenarioFSrc
  /\ lit_out = 2 /\ copy_out = 8
  /\ Entry = SyncStats(10, 2, 8)

(* C4: every entry of the stats ledger, after any sequence of calls, has   *)
(* non-negative fields with bytes_transferred + bytes_reused >=            *)
(* total_bytes, and in fact equal to it.                                   *)
LedgerTotality ==
  \A p \in LedgerKeys :
    stats[p] # NoStats =>
      /\ stats[p].total_bytes >= 0
      /\ stats[p].bytes_transferred >= 0
      /\ stats[p].bytes_reused >= 0
      /\ stats[p].bytes_transferred + stats[p].bytes_reused >= stats[p].total_bytes
      /\ stats[p].bytes_transferred + stats[p].bytes_reused = stats[p].total_bytes

\* After a second successful call in a row, an entry that mixes transferred
\* and reused bytes.
LedgerMixedEntry ==
  /\ ReconDone
  /\ prevSrc # NoPrev
  /\ Entry.bytes_transferred > 0 /\ Entry.bytes_reused > 0

(* C5: when source and destination are byte-equal before the call, delta   *)
(* sync_file leaves the destination bytes unchanged and records            *)
(* total_bytes = |S|, bytes_transferred = 0, bytes_reused = |S|.           *)
IdenticalContent ==
  (DeltaDone /\ dst0.kind = "file" /\ dst0.data = source.data) =>
    /\ fs[destination].data = dst0.data
    /\ Entry = SyncStats(Len(source.data), 0, Len(source.data))

\* A call over a non-empty destination with the source's bytes has returned.
IdenticalContentSynced ==
  /\ DeltaDone
  /\ dst0.kind = "file" /\ dst0.data = source.data /\ Len(source.data) > 0
  /\ Entry.bytes_reused = Len(source.data)

(* C6: when no destination exists, delta sync_file creates it with the     *)
(* source's content and records total_bytes = |S|, bytes_transferred =     *)
(* |S|, bytes_reused = 0, for every source length including 0.             *)
MissingDestination ==
  (DeltaDone /\ dst0.kind = "absent") =>
    /\ fs[destination].kind = "file"
    /\ fs[destination].data = source.data
    /\ Entry = SyncStats(Len(source.data), Len(source.data), 0)

\* A call that found no destination has created it from a non-empty source.
MissingDestinationCreated ==
  /\ DeltaDone
  /\ dst0.kind = "absent" /\ Len(source.data) > 0
  /\ fs[destination].kind = "file"
  /\ Entry.bytes_transferred = Len(source.data)

(* C7: when the source is empty and a non-empty regular destination        *)
(* exists, delta sync_file truncates the destination to empty and records  *)
(* total_bytes = 0, bytes_transferred = 0, bytes_reused = 0.               *)
EmptySourceTruncates ==
  (DeltaDone /\ source.data = << >> /\ dst0.kind = "file" /\ dst0.data # << >>) =>
    /\ fs[destination].kind = "file"
    /\ fs[destination].data = << >>
    /\ Entry = SyncStats(0, 0, 0)

\* A call with an empty source over a non-empty destination has returned.
EmptySourceSynced ==
  /\ DeltaDone
  /\ source.data = << >> /\ dst0.kind = "file" /\ dst0.data # << >>
  /\ fs[destination].data = << >>

\* The running call directly follows a successful call with the same source
\* and destination.
SecondRun == prevSrc = [ src |-> source.data, dst |-> destination ]

(* C8: idempotence: a second delta sync_file in a row with the source      *)
(* unchanged leaves the destination bytes as the first run left them and   *)
(* records bytes_transferred = 0.                                          *)
Idempotence ==
  (DeltaDone /\ SecondRun) =>
    /\ fs[destination].data = dst0.data
    /\ Entry.bytes_transferred = 0

\* The second of two runs in a row over a non-empty source has returned.
SecondRunDone ==
  /\ DeltaDone /\ SecondRun
  /\ Len(source.data) > 0
  /\ Entry.bytes_transferred = 0

\* What an observer reading the running call's destination sees is the
\* complete original content or the complete source content.
ObserverSeesWhole ==
  /\ fs[destination].kind = "file"
  /\ fs[destination].data \in { dst0.data, source.data }

\* A call over an existing regular destination is in progress or has ended.
OverRegularFile == pc # "idle" /\ pc # "rolling" /\ dst0.kind = "file"

(* C9 as stated: for either strategy variant, at every point of a          *)
(* sync_file over an existing regular destination, an observer sees the    *)
(* complete original content or the complete source content.               *)
AtomicForBothVariants == OverRegularFile => ObserverSeesWhole

(* C9 as amended: for the delta strategy, at every point of a sync_file    *)
(* over an existing regular destination, an observer sees the complete     *)
(* original content or the complete source content.                        *)
AtomicForDelta == (OverRegularFile /\ variant = "delta") => ObserverSeesWhole

\* Mid-reconstruction: output has been written to the temp file while the
\* destination still holds its original bytes, which differ from the source.
TempPartlyWritten ==
  /\ variant = "delta" /\ pc = "scan" /\ dst0.kind = "file"
  /\ fs[TmpName].kind = "file"
  /\ fs[TmpName].data # << >> /\ fs[TmpName].data # source.data
  /\ fs[destination].data = dst0.data /\ dst0.data # source.data

(* C10: if a write to the temp file fails during delta reconstruction,     *)
(* sync_file raises the error and the destination is exactly what it was   *)
(* before the call.                                                        *)
WriteFailureKeepsDestination ==
  (pc = "raised" /\ err = "OSError: write") =>
    /\ variant = "delta"
    /\ fs[destination] = dst0

\* A write failed over an existing destination that differs from the source.
WriteFailed ==
  /\ pc = "raised" /\ err = "OSError: write"
  /\ dst0.kind = "file" /\ dst0.data # source.data
  /\ fs[destination] = dst0

(* C12: when the destination is a symbolic link, sync_file of either       *)
(* strategy fails with SyncError as its first step, before any write: the  *)
(* link, the file it points to and the stats ledger are as they were.      *)
SymlinkRefused ==
  [][ (pc = "idle" /\ pc' # "idle" /\ fs[destination'].kind = "symlink") =>
        /\ pc' = "raised" /\ err' = "SyncError"
        /\ fs' = fs
        /\ stats' = stats ]_vars

\* A call over a link to a non-empty file has been refused.
SymlinkLeftAlone ==
  /\ pc = "raised" /\ err = "SyncError"
  /\ dst0.kind = "symlink" /\ dst0.data # << >>
  /\ source.data # dst0.data
  /\ fs[destination] = dst0

\* The errors a delta call can end with once its temp file exists.
AfterTempErrors == { "OSError: write", "OSError: replace", "OSError: copystat" }

(* C11: whenever delta sync_file fails after its temp file was created (a  *)
(* write failure, a rename failure), the temp file is gone from the        *)
(* destination's directory when the error reaches the caller, and the      *)
(* error is the original one also when the file was already absent.        *)
TempFileRemovedOnError ==
  /\ (pc = "raised" /\ err \in AfterTempErrors) => fs[TmpName] = Absent
  /\ pc = "raised" => err # "FileNotFoundError"

\* The rename failed over an existing destination; the temp file is gone and
\* the destination is as it was.
RenameFailedTempGone ==
  /\ pc = "raised" /\ err = "OSError: replace"
  /\ variant = "delta" /\ dst0.kind = "file"
  /\ fs[TmpName] = Absent
  /\ fs[destination] = dst0

(* C13 as stated: after sync_file succeeds, under either variant and on    *)
(* every path, the destination's mode, atime and mtime equal the source's. *)
MetadataPreserved ==
  pc = "done" => fs[destination].meta = source.meta

(* C14: the whole-copy strategy performs no write to an existing regular   *)
(* destination that already has the source's content: at every point of    *)
(* the call the destination entry is what it was, and the call succeeds.   *)
CopierWritesOnlyOnDifference ==
  (variant = "copy" /\ pc # "idle" /\ dst0.kind = "file"
     /\ dst0.data = source.data) =>
    /\ pc = "done"
    /\ fs[destination] = dst0

\* The whole-copy strategy has returned over a non-empty destination with
\* the source's content and older metadata, which it left as it was.
CopierSkippedEqual ==
  /\ variant = "copy" /\ pc = "done"
  /\ dst0.kind = "file" /\ dst0.data = source.data /\ Len(source.data) > 0
  /\ dst0.meta = "old"
  /\ fs[destination] = dst0

(* C15 as stated: FileCopierStrategy.sync_file over an existing regular     *)
(* destination whose content differs from the source copies the source     *)
(* over it without ever calling filecmp.cmp, and the destination content   *)
(* then equals the source.                                                 *)
CopierCopiesWithoutComparing ==
  (variant = "copy" /\ pc = "done" /\ dst0.kind = "file"
     /\ dst0.data # source.data) =>
    /\ cmp_calls = 0
    /\ fs[destination].data = source.data

\* The source length of the most recent successful delta call for a file,
\* the call that has just succeeded included; -1 when there was none.
LatestTotal(f) ==
  IF pc = "done" /\ variant = "delta" /\ destination = f
  THEN Len(source.data)
  ELSE last_ok[f]

(* C16: within one delta strategy instance get_stats_for(p), for every     *)
(* spelling of p, is None until a sync_file call for p has succeeded and   *)
(* afterwards is the entry of the most recent successful call for p (its   *)
(* total_bytes is that call's source length); the ledger has entries under *)
(* canonical paths only, so one per destination, a later call overwriting  *)
(* the earlier entry.                                                      *)
LedgerLatest ==
  /\ \A f \in Paths : \A a \in Spellings(f) :
       IF LatestTotal(f) = -1
       THEN GetStatsFor(stats, a) = NoStats
       ELSE /\ GetStatsFor(stats, a) # NoStats
            /\ GetStatsFor(stats, a).total_bytes = LatestTotal(f)
  /\ \A k \in LedgerKeys :
       stats[k] # NoStats => \E f \in Paths : k = Key(f)

\* A call for a file has succeeded directly after a successful call for the
\* same file with a source of another length; the other file has no entry.
LedgerOverwritten ==
  /\ pc = "done" /\ variant = "delta" /\ paths = Paths
  /\ prevSrc.dst = destination
  /\ last_ok[destination] = Len(prevSrc.src)
  /\ Len(prevSrc.src) # Len(source.data)
  /\ Entry.total_bytes = Len(source.data)
  /\ \E f \in Paths \ { destination } : stats[Key(f)] = NoStats

---------------------------------------------------------------------------
(* The rolling checksum on its own: a checksum initialised over            *)
(* bytes[0, L) and rolled forward one byte at a time.                      *)

\* The shortest window of bytes 255 whose plain sum reaches 2^16.
WrapWindow == (MOD \div 255) + 1

\* A periodic window of length L followed by a tail of bytes to roll in.
LongInputs(L) ==
  { Periodic(p, L) \o tail :
      p \in SeqsUpTo(RollBytes, MaxPeriod) \ { << >> },
      tail \in SeqsOfLen({ 0, 255 }, MaxRolls) }

\* (bytes, L): every short sequence with every window that fits, and long
\* sequences under a window long enough for both sums to wrap.
RollInputs ==
  { << d, L >> : d \in SeqsUpTo(RollBytes, MaxRollLen), L \in 1..MaxRollLen }
  \cup { << d, WrapWindow >> : d \in LongInputs(WrapWindow) }

InitRoll ==
  /\ variant = "delta"
  /\ inputs = {} /\ paths = {}
  /\ stats = [ k \in LedgerKeys |-> NoStats ]
  /\ fs = [ f \in Files |-> Absent ]
  /\ pc = "rolling" /\ err = "none" /\ prevSrc = NoPrev /\ last_ok = NoCalls
  /\ source = NoSource /\ destination = "none" /\ dst0 = Absent
  /\ destination_path = NoPath /\ cmp_calls = 0
  /\ TreeOff /\ CliOff
  /\ dst_buf = << >> /\ bufs = {} /\ signatures = << >>
  /\ temp_path = "" /\ tmp_open = FALSE /\ last_emitted = 0
  /\ literal_bytes = 0 /\ lit_out = 0 /\ copy_out = 0
  /\ \E in \in RollInputs :
       /\ in[2] <= Len(in[1])
       /\ src_buf = in[1]
       /\ block_size = in[2]
       /\ checksum = RollingChecksum(Slice(in[1], 0, in[2]), in[2])
  /\ idx = 0

\* rolling.roll(data[idx], data[idx + block_size])
RollStep ==
  /\ pc = "rolling"
  /\ idx + block_size < Len(src_buf)
  /\ checksum' = Roll(checksum, src_buf[idx + 1], src_buf[idx + block_size + 1])
  /\ idx' = idx + 1
  /\ UNCHANGED << cliVars, treeVars, config, stats, fs, pc, err, callVars, histVars, src_buf,
                  dst_buf, bufs, signatures, temp_path, tmp_open, last_emitted,
                  literal_bytes, lit_out, copy_out >>

NextRoll == RollStep

SpecChecksum == InitRoll /\ [][NextRoll]_vars

\* A checksum freshly initialised over bytes[idx, idx + block_size).
FreshAt(k) == RollingChecksum(Slice(src_buf, k, k + block_size), block_size)

(* C2: a checksum initialised over bytes[0, L) and rolled k times has the  *)
(* digest (and the two sums) of a checksum freshly initialised over        *)
(* bytes[k, k + L), also when the sums wrap around 2^16 or a subtraction   *)
(* goes negative.                                                          *)
RollingChecksumLaw ==
  pc = "rolling" =>
    /\ Digest(checksum) = Digest(FreshAt(idx))
    /\ checksum.s1 = FreshAt(idx).s1
    /\ checksum.s2 = FreshAt(idx).s2

\* Rolled at least twice, the window before the last roll having a plain
\* byte sum of 2^16 or more, the last roll's subtraction for s1 and some
\* roll's subtraction for s2 having gone negative.
RollingChecksumWrapped ==
  /\ pc = "rolling"
  /\ idx >= 2
  /\ SumBytes(Slice(src_buf, idx - 1, idx - 1 + block_size), block_size) >= MOD
  /\ FreshAt(idx - 1).s1 - src_buf[idx] + src_buf[idx + block_size] < 0
  /\ \E j \in 1..idx :
       FreshAt(j - 1).s2 - block_size * src_buf[j] + FreshAt(j).s1 < 0

---------------------------------------------------------------------------
(* sync.py: the trees on disk.                                             *)
(*                                                                         *)
(* A location is a sequence of names: << "src" >> and << "dst" >> are the  *)
(* two roots handed to sync(), << "ext", ... >> lies outside both trees    *)
(* and is what symbolic links point to.  A path is resolved the way the    *)
(* kernel does: every component but the last follows symbolic links.       *)

\* Deepest nesting of an entry below a root.
MaxDepth == 2

\* The name of the entry at each nesting depth, and of one more top-level
\* entry.
NameAt == << "a", "b", "c", "d" >>
SideName == "e"
Names == { NameAt[i] : i \in 1..MaxDepth } \cup { SideName }

Chain(k) == [ i \in 1..k |-> NameAt[i] ]
Parent(p) == SubSeq(p, 1, Len(p) - 1)
Last(p) == p[Len(p)]

\* Relative paths of the entries of a tree: a chain of nested entries and a
\* second top-level entry.
TreePaths == { Chain(k) : k \in 1..MaxDepth } \cup { << SideName >> }

\* os.path.join(dst, os.path.basename(src)) for an entry and itself: where
\* shutil.copy2 writes when its destination is a directory.
Inside(p) == Append(p, Last(p))

RelPaths == { << >> } \cup TreePaths \cup { Inside(p) : p \in TreePaths }

SrcRoot == << "src" >>
DstRoot == << "dst" >>
ExtFile == << "ext", "file" >>
ExtDir  == << "ext", "dir" >>
ExtNone == << "ext", "none" >>
ExtLocs == { ExtFile, ExtDir, ExtNone } \cup { Append(ExtDir, n) : n \in Names }
SrcLocs == { SrcRoot \o p : p \in { << >> } \cup TreePaths }
DstLocs == { DstRoot \o p : p \in RelPaths }
Locs == SrcLocs \cup DstLocs \cup ExtLocs

\* What symbolic links point to: a file, a directory, nothing.
LinkTexts == { ExtFile, ExtDir, ExtNone }

NoNode == [ kind |-> "absent", data |-> << >>, text |-> << >>, meta |-> "none" ]
FileNode(d, m) == [ kind |-> "file", data |-> d, text |-> << >>, meta |-> m ]
DirNode(m) == [ kind |-> "dir", data |-> << >>, text |-> << >>, meta |-> m ]
LinkNode(t) == [ kind |-> "link", data |-> << >>, text |-> t, meta |-> "link" ]

IsPrefix(a, b) == Len(a) <= Len(b) /\ SubSeq(b, 1, Len(a)) = a

NodeAt(d, loc) == IF loc \in DOMAIN d THEN d[loc] ELSE NoNode

\* The location a symbolic link at loc leads to (links point to non-links).
Follow(d, loc) ==
  IF NodeAt(d, loc).kind = "link" THEN NodeAt(d, loc).text ELSE loc

\* The location a path names, links in its directory part followed.
RECURSIVE Phys(_, _)
Phys(d, path) ==
  IF Len(path) <= 1 THEN path
  ELSE Append(Follow(d, Phys(d, Parent(path))), Last(path))

\* os.lstat(path) and os.stat(path)
LStat(d, path) == NodeAt(d, Phys(d, path))
Stat(d, path) == NodeAt(d, Follow(d, Phys(d, path)))

\* Path.is_symlink(), Path.exists(), Path.is_dir(), os.readlink(path)
PathIsSymlink(d, path) == LStat(d, path).kind = "link"
PathExists(d, path) == Stat(d, path).kind # "absent"
PathIsDir(d, path) == Stat(d, path).kind = "dir"
ReadLink(d, path) == LStat(d, path).text

\* The outcome of an operation on the disk: the disk after it and the
\* exception it raised, "none" when it returned.
Ok(d) == [ disk |-> d, exc |-> "none" ]
Fails(d, e) == [ disk |-> d, exc |-> e ]

\* The entries directly inside the directory at a location.
EntriesIn(d, loc) ==
  { c \in DOMAIN d : Len(c) = Len(loc) + 1 /\ Parent(c) = loc
                     /\ d[c].kind # "absent" }

\* Adding an entry to a directory or removing one from it sets the
\* directory's modification time: its metadata is no longer what it was.
Touched(d, loc) ==
  IF Parent(loc) \in DOMAIN d /\ d[Parent(loc)].kind = "dir"
  THEN [ d EXCEPT ![Parent(loc)].meta = "touched" ]
  ELSE d

\* Path.unlink(): removes a file or the link itself.
PathUnlink(d, path) ==
  LET l == Phys(d, path)
  IN  IF NodeAt(d, l).kind \in { "file", "link" }
      THEN Ok(Touched([ d EXCEPT ![l] = NoNode ], l))
      ELSE Fails(d, "OSError")

\* Path.rmdir(): removes an empty directory.
PathRmdir(d, path) ==
  LET l == Phys(d, path)
  IN  IF NodeAt(d, l).kind = "dir" /\ EntriesIn(d, l) = {}
      THEN Ok(Touched([ d EXCEPT ![l] = NoNode ], l))
      ELSE Fails(d, "OSError")

\* shutil.rmtree(path): removes a directory and everything below it.
PathRmtree(d, path) ==
  LET l == Phys(d, path)
  IN  IF NodeAt(d, l).kind = "dir"
      THEN Ok(Touched([ c \in DOMAIN d |->
                          IF IsPrefix(l, c) THEN NoNode ELSE d[c] ], l))
      ELSE Fails(d, "OSError")

\* Path.mkdir(parents=True, exist_ok=True): nothing to do when the path is
\* (or leads to) a directory; missing parents are created first.
RECURSIVE PathMkdir(_, _)
PathMkdir(d, path) ==
  IF PathIsDir(d, path) THEN Ok(d)
  ELSE IF LStat(d, path).kind # "absent" THEN Fails(d, "OSError")
  ELSE LET up == IF Len(path) > 1 THEN PathMkdir(d, Parent(path)) ELSE Ok(d)
           l  == Phys(up.disk, path)
       IN  IF up.exc # "none" THEN up
           ELSE IF l \in DOMAIN d
                THEN Ok(Touched([ up.disk EXCEPT ![l] = DirNode("fresh") ], l))
                ELSE Fails(up.disk, "OSError")

\* os.symlink(text, path)
PathSymlink(d, text, path) ==
  LET l == Phys(d, path)
  IN  IF l \in DOMAIN d /\ d[l].kind = "absent"
         /\ (Len(path) <= 1 \/ PathIsDir(d, Parent(path)))
      THEN Ok(Touched([ d EXCEPT ![l] = LinkNode(text) ], l))
      ELSE Fails(d, "OSError")

\* shutil.copystat(src, dst, follow_symlinks=False): acts on the links
\* themselves only when both are links, and follows them otherwise.
CopyStat(d, src, dst) ==
  IF PathIsSymlink(d, src) /\ PathIsSymlink(d, dst) THEN Ok(d)
  ELSE LET l == Follow(d, Phys(d, dst))
       IN  IF NodeAt(d, l).kind = "absent" \/ ~PathExists(d, src)
           THEN Fails(d, "OSError")
           ELSE Ok([ d EXCEPT ![l].meta = Stat(d, src).meta ])

\* filecmp.cmp(a, b, shallow=False) for two paths that exist: False unless
\* both are regular files with the same bytes.
FileCmpPaths(d, a, b) ==
  /\ Stat(d, a).kind = "file"
  /\ Stat(d, b).kind = "file"
  /\ FileCmp(Stat(d, a).data, Stat(d, b).data)

\* shutil.copy2(src, dst): into dst/basename(src) when dst is a directory;
\* the bytes are written to what the path leads to (created when missing),
\* then copystat.
Copy2(d, src, dst) ==
  LET real == IF PathIsDir(d, dst) THEN Append(dst, Last(src)) ELSE dst
      l    == Follow(d, Phys(d, real))
      new  == [ d EXCEPT ![l] = FileNode(Stat(d, src).data, Stat(d, src).meta) ]
  IN  IF l \in DOMAIN d /\ d[l].kind \in { "absent", "file" }
         /\ PathIsDir(d, Parent(real))
      THEN Ok(IF d[l].kind = "absent" THEN Touched(new, l) ELSE new)
      ELSE Fails(d, "OSError")

\* FileCopier.sync_file(source, destination)
CopierSyncFile(d, src, dst) ==
  IF PathIsSymlink(d, dst) THEN Fails(d, "SyncError")
  ELSE IF ~PathExists(d, dst) \/ ~FileCmpPaths(d, src, dst)
       THEN Copy2(d, src, dst)
       ELSE Ok(d)

\* DeltaSynchronizer.sync_file(source, destination) for a non-empty source:
\* a copy when the destination is missing, a metadata refresh when the
\* contents are equal, otherwise the reconstruction renamed over the
\* destination (the temp file is created in, and renamed inside, the
\* destination's directory); a directory cannot be opened for reading.
DeltaSyncFile(d, src, dst) ==
  IF PathIsSymlink(d, dst) THEN Fails(d, "SyncError")
  ELSE IF ~PathExists(d, dst) THEN Copy2(d, src, dst)
  ELSE IF FileCmpPaths(d, src, dst) THEN CopyStat(d, src, dst)
  ELSE IF Stat(d, dst).kind # "file" THEN Fails(d, "OSError")
  ELSE Ok(Touched([ d EXCEPT ![Phys(d, dst)] =
                      FileNode(Stat(d, src).data, Stat(d, src).meta) ],
                  Phys(d, dst)))

\* strategy.sync_file(source, destination)
SyncFile(d, src, dst) ==
  IF variant = "copy" THEN CopierSyncFile(d, src, dst)
  ELSE DeltaSyncFile(d, src, dst)

---------------------------------------------------------------------------
(* sync.py: sync(), _copy_missing_and_updated() and _remove_extraneous().  *)

\* The entries of a directory of the source tree that os.walk lists.
Listed(d, root) ==
  { n \in Names : Append(root, n) \in TreePaths
                  /\ LStat(d, SrcRoot \o Append(root, n)).kind # "absent" }

\* os.walk's dirnames (entry.is_dir(), a link to a directory included) and
\* filenames (everything else) of a source directory.
WalkDirnames(d, root) ==
  { n \in Listed(d, root) : PathIsDir(d, SrcRoot \o Append(root, n)) }

\* A walk that lists the files of the top directory only.
WalkFilenamesTopOnly(d, root) ==
  IF root = << >> THEN Listed(d, root) \ WalkDirnames(d, root) ELSE {}

\* os.walk's filenames of a source directory.
WalkFilenames(d, root) == Listed(d, root) \ WalkDirnames(d, root)

\* The directories os.walk descends into after a root: its real
\* subdirectories (followlinks=False), in name order.
RECURSIVE SubdirsFrom(_, _, _)
SubdirsFrom(d, root, order) ==
  IF order = << >> THEN << >>
  ELSE LET n    == Head(order)
           rest == SubdirsFrom(d, root, Tail(order))
       IN  IF n \in Listed(d, root)
              /\ LStat(d, SrcRoot \o Append(root, n)).kind = "dir"
           THEN << Append(root, n) >> \o rest
           ELSE rest

NameOrder == SubSeq(NameAt, 1, MaxDepth) \o << SideName >>

\* The locals of sync() that its helpers read and change.
Walker ==
  [ disk |-> disk, tracked |-> tracked_dirs, targets |-> metadata_targets,
    reports |-> reports, calls |-> calls, exc |-> "none" ]

\* _report_action(reporter, SyncAction(kind, path))
Report(w, kind, path) ==
  [ w EXCEPT !.reports = Append(@, << kind, path >>) ]

\* The walker after an operation on the disk.
Apply(w, r) == [ w EXCEPT !.disk = r.disk, !.exc = r.exc ]

\* The operation performed whatever dry_run is.
UnlessDryIgnored(w, r) == Apply(w, r)

\* if not dry_run: <operation>
UnlessDry(w, r) == IF dry_run THEN w ELSE Apply(w, r)

\* metadata_targets[path] = source_dir
SetTarget(targets, path, source_dir) ==
  { t \in targets : t[1] # path } \cup { << path, source_dir >> }

\* An ensure_directory that leaves a symbolic link where it finds one.
EnsureDirectoryKeepsLink(w, path, source_dir) ==
  IF PathExists(w.disk, path)
  THEN IF ~PathIsDir(w.disk, path) THEN [ w EXCEPT !.exc = "SyncError" ] ELSE w
  ELSE IF path \in w.tracked THEN w
  ELSE LET w2 == Report([ w EXCEPT !.tracked = @ \cup { path } ],
                        "create_dir", path)
           w3 == UnlessDry(w2, PathMkdir(w2.disk, path))
       IN  IF w3.exc # "none" THEN w3
           ELSE [ w3 EXCEPT !.targets = SetTarget(@, path, source_dir) ]

\* ensure_directory(path, source_dir)
EnsureDirectory(w, path, source_dir) ==
  LET was_symlink == PathIsSymlink(w.disk, path)
      w1 == IF was_symlink
            THEN LET r == Report(w, "remove_file", path)
                 IN  UnlessDry(r, PathUnlink(r.disk, path))
            ELSE w
  IN  IF w1.exc # "none" THEN w1
      ELSE IF ~was_symlink /\ PathExists(w1.disk, path)
      THEN IF ~PathIsDir(w1.disk, path)
           THEN [ w1 EXCEPT !.exc = "SyncError" ]
           ELSE w1
      ELSE IF path \in w1.tracked THEN w1
      ELSE LET w2 == Report([ w1 EXCEPT !.tracked = @ \cup { path } ],
                            "create_dir", path)
               w3 == UnlessDry(w2, PathMkdir(w2.disk, path))
           IN  IF w3.exc # "none" THEN w3
               ELSE [ w3 EXCEPT !.targets = SetTarget(@, path, source_dir) ]

\* The removal of what is at the target of handle_symlink.
RemoveTarget(d, target, target_is_symlink) ==
  IF target_is_symlink THEN PathUnlink(d, target)
  ELSE IF PathIsDir(d, target) THEN PathRmtree(d, target)
  ELSE PathUnlink(d, target)

\* handle_symlink(item)
HandleSymlink(w, item) ==
  LET relative == Tail(item)
      target   == DstRoot \o relative
      w1       == EnsureDirectory(w, Parent(target), Parent(item))
      link_target       == ReadLink(w1.disk, item)
      target_is_symlink == PathIsSymlink(w1.disk, target)
      target_exists     == target_is_symlink \/ PathExists(w1.disk, target)
      same_link == target_is_symlink /\ ReadLink(w1.disk, target) = link_target
      w2 == Report(w1, IF ~target_exists THEN "create_symlink"
                       ELSE "update_symlink", target)
      w3 == IF target_exists
            THEN Apply(w2, RemoveTarget(w2.disk, target, target_is_symlink))
            ELSE w2
  IN  IF w1.exc # "none" THEN w1
      ELSE IF same_link THEN w1
      ELSE IF dry_run THEN w2
      ELSE IF w3.exc # "none" THEN w3
      ELSE Apply(w3, PathSymlink(w3.disk, link_target, target))

\* The body of `for name in list(dirnames)` for a directory that is not a
\* symbolic link.
HandleDirectory(w, item) ==
  LET target == DstRoot \o Tail(item)
      w1 == [ w EXCEPT !.targets = SetTarget(@, target, item) ]
  IN  IF PathIsSymlink(w1.disk, target) \/ ~PathExists(w1.disk, target)
      THEN EnsureDirectory(w1, target, item)
      ELSE w1

\* if target_is_symlink: report remove_file; if not dry_run: target.unlink()
RemoveLink(w, target, target_is_symlink) ==
  IF target_is_symlink
  THEN LET r == Report(w, "remove_file", target)
       IN  UnlessDry(r, PathUnlink(r.disk, target))
  ELSE w

\* The body of `for name in filenames` for a file that is not a symbolic
\* link.
HandleFile(w, item) ==
  LET target == DstRoot \o Tail(item)
      w1 == EnsureDirectory(w, Parent(target), Parent(item))
      target_is_symlink == PathIsSymlink(w1.disk, target)
      target_exists == IF ~target_is_symlink THEN PathExists(w1.disk, target)
                       ELSE FALSE
      w2 == RemoveLink(w1, target, target_is_symlink)
      changed == IF target_exists
                 THEN ~FileCmpPaths(w2.disk, item, target)
                 ELSE TRUE
      w3 == IF changed
            THEN Report(w2, IF ~target_exists THEN "copy_file"
                            ELSE "update_file", target)
            ELSE w2
      w4 == [ w3 EXCEPT !.calls =
                Append(@, << target, LStat(w3.disk, target).kind >>) ]
  IN  IF w1.exc # "none" THEN w1
      ELSE IF w2.exc # "none" THEN w2
      ELSE IF dry_run THEN w3
      ELSE Apply(w4, SyncFile(w4.disk, item, target))

\* An exception leaves sync(): a SyncError as it is, an OSError wrapped by
\* `except OSError as exc: raise SyncError(str(exc)) from exc`.
Wrapped(exc) == IF exc = "OSError" THEN "SyncError: OSError" ELSE exc

\* The walker's locals after a step of the walk that returned or raised.
Commit(w) ==
  /\ disk' = w.disk
  /\ tracked_dirs' = w.tracked
  /\ metadata_targets' = w.targets
  /\ reports' = w.reports
  /\ calls' = w.calls
  /\ IF w.exc = "none"
     THEN UNCHANGED << wpc, werr >>
     ELSE wpc' = "raised" /\ werr' = Wrapped(w.exc)

---------------------------------------------------------------------------
(* sync(): the steps.                                                      *)

walkVars == << walk_queue, root_path, dirnames, filenames >>

\* Only the source is checked.
RootsRefusedSourceOnly(d) ==
  ~PathExists(d, SrcRoot) \/ ~PathIsDir(d, SrcRoot)

\* The checks of sync() that raise SyncError before anything is done: the
\* source is missing or not a directory, the destination is a symbolic link
\* or exists and is not a directory.
RootsRefused(d) ==
  \/ ~PathExists(d, SrcRoot) \/ ~PathIsDir(d, SrcRoot)
  \/ PathIsSymlink(d, DstRoot)
  \/ (PathExists(d, DstRoot) /\ ~PathIsDir(d, DstRoot))

\* sync() up to the first directory os.walk yields: the checks of the two
\* roots and the creation of a missing destination root.
SyncBegin ==
  /\ wpc = "start"
  /\ IF RootsRefused(disk)
     THEN /\ wpc' = "raised" /\ werr' = "SyncError"
          /\ UNCHANGED << disk, tracked_dirs, metadata_targets, reports,
                          walk_queue >>
     ELSE /\ IF PathExists(disk, DstRoot)
             THEN UNCHANGED << disk, tracked_dirs, reports >>
             ELSE /\ reports' = Append(reports, << "create_dir", DstRoot >>)
                  /\ tracked_dirs' = tracked_dirs \cup { DstRoot }
                  /\ disk' = IF dry_run THEN disk
                             ELSE PathMkdir(disk, DstRoot).disk
          /\ metadata_targets' = { << DstRoot, SrcRoot >> }
          /\ walk_queue' = << << >> >>
          /\ wpc' = "walk"
          /\ UNCHANGED werr
  /\ UNCHANGED << cliVars, fileVars, first, disk0, dry_run, root_path, dirnames, filenames,
                  calls, rm_items >>

\* dst.mkdir(parents=True, exist_ok=True) raises: it is outside the try
\* block, so the OSError leaves sync() as it is.
RootMkdirFail ==
  /\ wpc = "start"
  /\ PathExists(disk, SrcRoot) /\ PathIsDir(disk, SrcRoot)
  /\ ~PathIsSymlink(disk, DstRoot) /\ ~PathExists(disk, DstRoot)
  /\ ~dry_run
  /\ reports' = Append(reports, << "create_dir", DstRoot >>)
  /\ wpc' = "raised" /\ werr' = "OSError"
  /\ UNCHANGED << cliVars, fileVars, first, disk, disk0, dry_run, walkVars, tracked_dirs,
                  metadata_targets, calls, rm_items >>

\* os.walk yields the next directory of the source tree.
WalkYield ==
  /\ wpc = "walk"
  /\ dirnames = {} /\ filenames = {}
  /\ walk_queue # << >>
  /\ LET root == Head(walk_queue)
     IN  /\ root_path' = root
         /\ dirnames' = WalkDirnames(disk, root)
         /\ filenames' = WalkFilenames(disk, root)
         /\ walk_queue' = SubdirsFrom(disk, root, NameOrder) \o Tail(walk_queue)
  /\ UNCHANGED << cliVars, fileVars, first, disk, disk0, dry_run, wpc, werr, tracked_dirs,
                  metadata_targets, reports, calls, rm_items >>

\* One iteration of `for name in list(dirnames)`.
DirItem ==
  /\ wpc = "walk"
  /\ \E name \in dirnames :
       LET item == SrcRoot \o Append(root_path, name)
       IN  /\ Commit(IF PathIsSymlink(disk, item)
                     THEN HandleSymlink(Walker, item)
                     ELSE HandleDirectory(Walker, item))
           /\ dirnames' = dirnames \ { name }
  /\ UNCHANGED << cliVars, fileVars, first, disk0, dry_run, walk_queue, root_path, filenames,
                  rm_items >>

\* One iteration of `for name in filenames`.
FileItem ==
  /\ wpc = "walk"
  /\ dirnames = {}
  /\ \E name \in filenames :
       LET item == SrcRoot \o Append(root_path, name)
       IN  /\ Commit(IF PathIsSymlink(disk, item)
                     THEN HandleSymlink(Walker, item)
                     ELSE HandleFile(Walker, item))
           /\ filenames' = filenames \ { name }
  /\ UNCHANGED << cliVars, fileVars, first, disk0, dry_run, walk_queue, root_path, dirnames,
                  rm_items >>

\* The walk is over: `if dry_run: return`, else the metadata pass.
WalkEnd ==
  /\ wpc = "walk"
  /\ dirnames = {} /\ filenames = {} /\ walk_queue = << >>
  /\ wpc' = IF dry_run THEN "extraneous" ELSE "metadata"
  /\ UNCHANGED << cliVars, fileVars, first, disk, disk0, dry_run, werr, walkVars, tracked_dirs,
                  metadata_targets, reports, calls, rm_items >>

\* _copy_directory_metadata for every target of a set that exists.
RECURSIVE CopyAllMetadata(_, _)
CopyAllMetadata(d, targets) ==
  IF targets = {} THEN d
  ELSE LET t == CHOOSE x \in targets :
                  \A y \in targets : Len(y[1]) <= Len(x[1])
           r == IF PathExists(d, t[1]) THEN CopyStat(d, t[2], t[1]).disk ELSE d
       IN  CopyAllMetadata(r, targets \ { t })

\* for target_path, source_path in sorted(metadata_targets.items(), deepest
\* first): if target_path.exists(): copystat
MetadataPass ==
  /\ wpc = "metadata"
  /\ disk' = CopyAllMetadata(disk, metadata_targets)
  /\ wpc' = "extraneous"
  /\ UNCHANGED << cliVars, fileVars, first, disk0, dry_run, werr, walkVars, tracked_dirs,
                  metadata_targets, reports, calls, rm_items >>

\* A listing that leaves symbolic links out.
RGlobNoLinks(d) ==
  { DstRoot \o p : p \in { q \in RelPaths \ { << >> } :
      /\ NodeAt(d, DstRoot \o q).kind \in { "file", "dir" }
      /\ \A k \in 1..(Len(q) - 1) :
           NodeAt(d, DstRoot \o SubSeq(q, 1, k)).kind = "dir" } }

\* dst.rglob('*'): every entry below the destination root, the contents of
\* real directories included, those of linked directories not.
RGlob(d) ==
  { DstRoot \o p : p \in { q \in RelPaths \ { << >> } :
      /\ NodeAt(d, DstRoot \o q).kind # "absent"
      /\ \A k \in 1..(Len(q) - 1) :
           NodeAt(d, DstRoot \o SubSeq(q, 1, k)).kind = "dir" } }

\* if dst.exists(): _remove_extraneous(...): the listing is sorted, so it is
\* complete before the first removal.
RemoveBegin ==
  /\ wpc = "extraneous"
  /\ IF PathExists(disk, DstRoot)
     THEN rm_items' = RGlob(disk) /\ wpc' = "remove"
     ELSE rm_items' = {} /\ wpc' = "done"
  /\ UNCHANGED << cliVars, fileVars, first, disk, disk0, dry_run, werr, walkVars, tracked_dirs,
                  metadata_targets, reports, calls >>

\* origin.exists()
OriginExists(d, origin) == PathExists(d, origin)

\* One iteration of the loop of _remove_extraneous, deepest items first.
RemoveItem ==
  /\ wpc = "remove"
  /\ \E item \in rm_items :
       /\ \A other \in rm_items : Len(other) <= Len(item)
       /\ rm_items' = rm_items \ { item }
       /\ LET origin == SrcRoot \o Tail(item)
              is_dir == PathIsDir(disk, item) /\ ~PathIsSymlink(disk, item)
              w1 == Report(Walker, IF is_dir THEN "remove_dir"
                                   ELSE "remove_file", item)
          IN  IF OriginExists(disk, origin)
              THEN UNCHANGED << disk, tracked_dirs, metadata_targets, reports,
                                calls, wpc, werr >>
              ELSE Commit(UnlessDry(w1, IF is_dir THEN PathRmdir(w1.disk, item)
                                        ELSE PathUnlink(w1.disk, item)))
  /\ UNCHANGED << cliVars, fileVars, first, disk0, dry_run, walkVars >>

\* The loop of _remove_extraneous is over and sync() returns.
RemoveEnd ==
  /\ wpc = "remove"
  /\ rm_items = {}
  /\ wpc' = "done"
  /\ UNCHANGED << cliVars, fileVars, first, disk, disk0, dry_run, werr, walkVars, tracked_dirs,
                  metadata_targets, reports, calls, rm_items >>

\* A file-system operation of the walk, the metadata pass or the removal
\* raises OSError: sync() raises SyncError from it.
WalkFail ==
  /\ wpc \in { "walk", "metadata", "extraneous", "remove" }
  /\ wpc' = "raised" /\ werr' = Wrapped("OSError")
  /\ UNCHANGED << cliVars, fileVars, first, disk, disk0, dry_run, walkVars, tracked_dirs,
                  metadata_targets, reports, calls, rm_items >>

NextTree ==
  \/ SyncBegin \/ RootMkdirFail
  \/ WalkYield \/ DirItem \/ FileItem \/ WalkEnd
  \/ MetadataPass
  \/ RemoveBegin \/ RemoveItem \/ RemoveEnd
  \/ WalkFail

---------------------------------------------------------------------------
(* sync(): the trees it may be called on.                                  *)

\* The nodes an entry of the source tree and of the destination tree may
\* be; the second top-level entry takes fewer forms.
SrcNodes(p) ==
  IF p = << SideName >>
  THEN { NoNode, FileNode(<< 97 >>, "src") }
  ELSE { NoNode, FileNode(<< 97 >>, "src"), DirNode("src") }
       \cup { LinkNode(t) : t \in LinkTexts }
DstNodes(p) ==
  IF p = << SideName >>
  THEN { NoNode, FileNode(<< 98 >>, "old"), LinkNode(ExtDir), DirNode("old") }
  ELSE { NoNode, FileNode(<< 97 >>, "old"), FileNode(<< 98 >>, "old"),
         DirNode("old") }
       \cup { LinkNode(t) : t \in LinkTexts }

AllNodes == UNION { SrcNodes(p) \cup DstNodes(p) : p \in TreePaths }

\* An entry exists only inside a directory.
WellFormed(t) ==
  \A p \in TreePaths :
    (Len(p) > 1 /\ t[p].kind # "absent") => t[Parent(p)].kind = "dir"

SrcTrees ==
  { t \in [ TreePaths -> AllNodes ] :
      WellFormed(t) /\ \A p \in TreePaths : t[p] \in SrcNodes(p) }
DstTrees ==
  { t \in [ TreePaths -> AllNodes ] :
      WellFormed(t) /\ \A p \in TreePaths : t[p] \in DstNodes(p) }
EmptyTree == [ p \in TreePaths |-> NoNode ]

\* What lies outside the two trees: a file, a directory holding a file of
\* every name, and a name that does not exist.
ExtNode(l) ==
  IF l = ExtNone THEN NoNode
  ELSE IF l = ExtDir THEN DirNode("ext")
  ELSE FileNode(<< 99 >>, "ext")

MakeDisk(src_root, src_tree, dst_root, dst_tree) ==
  [ l \in Locs |->
      IF l \in ExtLocs THEN ExtNode(l)
      ELSE IF l = SrcRoot THEN src_root
      ELSE IF l = DstRoot THEN dst_root
      ELSE IF Head(l) = "src" THEN src_tree[Tail(l)]
      ELSE IF Tail(l) \in TreePaths THEN dst_tree[Tail(l)]
      ELSE NoNode ]

\* Two directories; or a source directory and a destination root that is
\* missing, a file or a link; or a source root that is missing or a file.
InitialDisks ==
  { MakeDisk(DirNode("src"), s, DirNode("old"), t) :
      s \in SrcTrees, t \in DstTrees }
  \cup { MakeDisk(DirNode("src"), s, r, EmptyTree) :
           s \in SrcTrees,
           r \in { NoNode, FileNode(<< 98 >>, "old"), LinkNode(ExtDir) } }
  \cup { MakeDisk(r, EmptyTree, DirNode("old"), t) :
           r \in { NoNode, FileNode(<< 97 >>, "src") }, t \in DstTrees }

\* sync(source, destination, strategy, dry_run=...) is called with a fresh
\* strategy.
InitTree ==
  /\ variant \in { "copy", "delta" }
  /\ block_size = 1
  /\ inputs = {} /\ paths = {}
  /\ stats = [ k \in LedgerKeys |-> NoStats ]
  /\ fs = [ f \in Files |-> Absent ]
  /\ pc = "idle" /\ err = "none" /\ prevSrc = NoPrev /\ last_ok = NoCalls
  /\ LocalsIdle
  /\ disk \in InitialDisks
  /\ disk0 = disk
  /\ dry_run \in BOOLEAN
  /\ wpc = "start" /\ werr = "none"
  /\ walk_queue = << >> /\ root_path = << >> /\ dirnames = {} /\ filenames = {}
  /\ tracked_dirs = {} /\ metadata_targets = {}
  /\ reports = << >> /\ calls = << >> /\ rm_items = {}
  /\ first = NoFirst
  /\ CliOff

SpecTree == InitTree /\ [][NextTree]_vars

---------------------------------------------------------------------------
(* Properties of sync(), checked under SpecTree.                           *)

\* sync() has returned without error and it was not a dry run.
SyncDone == wpc = "done" /\ ~dry_run

SrcEntry(p) == NodeAt(disk, SrcRoot \o p)
DstEntry(p) == NodeAt(disk, DstRoot \o p)
DstEntry0(p) == NodeAt(disk0, DstRoot \o p)

\* The destination tree is well formed: entries exist only inside
\* directories.
DstWellFormed ==
  \A l \in DstLocs :
    (Len(l) > 1 /\ disk[l].kind # "absent") => disk[Parent(l)].kind = "dir"

(* C17 as stated: after sync completes without error (not a dry run), for  *)
(* every regular file at relative path p of the source tree, destination/p *)
(* is a regular file with the source file's content, whatever was at p in  *)
(* the destination before.                                                 *)
FilesMirrored ==
  SyncDone =>
    \A p \in TreePaths :
      SrcEntry(p).kind = "file" =>
        /\ DstEntry(p).kind = "file"
        /\ DstEntry(p).data = SrcEntry(p).data

(* C18: after sync completes without error (not a dry run), every entry    *)
(* left in the destination tree has a counterpart at the same relative     *)
(* path of the source tree.                                                *)
NoExtraneousLeft ==
  SyncDone =>
    \A p \in RelPaths \ { << >> } :
      DstEntry(p).kind # "absent" => SrcEntry(p).kind # "absent"

\* A sync that has removed an extraneous directory, an extraneous file and
\* an extraneous symbolic link.
ExtraneousRemoved ==
  /\ SyncDone
  /\ \A k \in { "dir", "file", "link" } :
       \E p \in TreePaths :
         /\ DstEntry0(p).kind = k
         /\ SrcEntry(p).kind = "absent"
         /\ DstEntry(p).kind = "absent"

(* C19 as stated: after sync completes without error (not a dry run), for  *)
(* every symbolic link at relative path p of the source tree, whatever it  *)
(* points to, destination/p is a symbolic link with the same link text.    *)
LinksMirrored ==
  SyncDone =>
    \A p \in TreePaths :
      SrcEntry(p).kind = "link" =>
        /\ DstEntry(p).kind = "link"
        /\ DstEntry(p).text = SrcEntry(p).text

\* Nothing outside the destination tree differs from what it was.
OutsideUntouched ==
  \A l \in Locs \ DstLocs : disk[l] = disk0[l]

DirectoryMetadataPreserved ==
  SyncDone =>
    /\ disk[DstRoot].meta = disk[SrcRoot].meta
    /\ \A p \in TreePaths :
         (SrcEntry(p).kind = "dir" /\ DstEntry(p).kind = "dir") =>
           DstEntry(p).meta = SrcEntry(p).meta

\* Some action of one of the kinds was reported for the path.
Reported(kinds, path) ==
  \E i \in 1..Len(reports) : reports[i][1] \in kinds /\ reports[i][2] = path

\* What stat() gave for destination/p when sync() was called.
DstStat0(p) == Stat(disk0, DstRoot \o p)

(* C22: sync(..., dry_run=True) leaves the destination exactly as it was:  *)
(* at every step nothing on disk differs from the start (a missing         *)
(* destination root stays missing) and sync_file has not been called;      *)
(* and when it returns, a copy or an update has been reported for every    *)
(* source file whose destination is not an identical file, and a removal   *)
(* for every destination entry that has no source counterpart in a         *)
(* directory the source has too.                                           *)
DryRunChangesNothing ==
  (wpc # "off" /\ dry_run) =>
    /\ disk = disk0
    /\ calls = << >>
    /\ wpc = "done" =>
         /\ \A p \in TreePaths :
              (/\ SrcEntry(p).kind = "file"
               /\ ~(DstStat0(p).kind = "file" /\ DstStat0(p).data = SrcEntry(p).data))
              => Reported({ "copy_file", "update_file" }, DstRoot \o p)
         /\ \A p \in TreePaths :
              (/\ DstEntry0(p).kind # "absent" /\ SrcEntry(p).kind = "absent"
               /\ Len(p) > 1 => SrcEntry(Parent(p)).kind = "dir")
              => Reported({ "remove_file", "remove_dir" }, DstRoot \o p)

\* A dry run has returned after reporting a copy, an update and a removal,
\* and the disk is what it was.
DryRunReported ==
  /\ dry_run /\ wpc = "done"
  /\ disk = disk0
  /\ \A k \in { "copy_file", "update_file", "remove_file" } :
       \E i \in 1..Len(reports) : reports[i][1] = k

(* C23 as stated: an operating-system error raised by any file-system      *)
(* operation of sync (creating the destination root included) reaches the  *)
(* caller as a SyncError, never as a raw OSError.                          *)
OSErrorsWrapped ==
  wpc = "raised" => werr \in { "SyncError", "SyncError: OSError" }

\* sync() was called on roots it must refuse.
BadRoots ==
  \/ disk0[SrcRoot].kind # "dir"
  \/ disk0[DstRoot].kind \in { "link", "file" }

(* C24: when the source does not exist or is not a directory, or the       *)
(* destination root is a symbolic link or exists and is not a directory,   *)
(* sync raises SyncError and nothing is created, modified or removed: the  *)
(* walk never starts, the disk is what it was and sync_file is not called. *)
RootsRejected ==
  (wpc # "off" /\ BadRoots) =>
    /\ wpc \in { "start", "raised" }
    /\ wpc = "raised" => werr = "SyncError"
    /\ disk = disk0
    /\ calls = << >> /\ reports = << >>

\* sync() has refused a destination root that is a symbolic link to a
\* directory, and left everything alone.
LinkedRootRefused ==
  /\ wpc = "raised" /\ werr = "SyncError"
  /\ disk0[DstRoot] = LinkNode(ExtDir)
  /\ disk0[SrcRoot].kind = "dir"
  /\ \E p \in TreePaths : SrcEntry(p).kind = "file"
  /\ disk = disk0

(* C27 as stated: the walker calls strategy.sync_file(item, target) only   *)
(* with a target that is, at the moment of the call, absent or a regular   *)
(* file; never with a symbolic link or a directory.                        *)
SyncFileTargetsRegular ==
  \A i \in 1..Len(calls) : calls[i][2] \in { "absent", "file" }

---------------------------------------------------------------------------
(* __main__.py: main(), _build_strategy() and the console reporter.        *)
(*                                                                         *)
(* The sync() call of main() is followed through the actions it reports:   *)
(* each is passed to the reporter (when there is one) and then, unless it  *)
(* is a dry run or a skip, performed on the destination.                   *)

\* Most actions one sync() call of a CLI run reports.
MaxActions == 2

\* The --block-size values of the model: not given, or an integer.
BlockSizeArgs == { << >> } \cup { << n >> : n \in -1..2 }

\* SyncActionKind
SyncActionKinds ==
  { "create_dir", "copy_file", "update_file", "create_symlink",
    "update_symlink", "remove_file", "remove_dir", "skip_file", "skip_dir",
    "skip_symlink" }

\* The kinds sync() reports only when verbose, and those it reports with
\* source=item.
SkipKinds == { "skip_file", "skip_dir", "skip_symlink" }
KindsWithSource ==
  { "copy_file", "update_file", "create_symlink", "update_symlink",
    "skip_file", "skip_symlink" }

\* The source an action of a kind for a destination path is reported with,
\* << >> for None.
SourceOf(kind, path) ==
  IF kind \in KindsWithSource THEN << "src" >> \o Tail(path) ELSE << >>

\* DeltaSynchronizer.__init__(block_size): the exception it raises.
DeltaInit(bs) == IF bs <= 0 THEN "ValueError" ELSE "none"

\* The outcome of building a strategy: the exception raised, or the
\* strategy's class and block size (0 for a FileCopier).
Built(v, bs) == [ exc |-> "none", variant |-> v, block_size |-> bs ]
NotBuilt(e) == [ exc |-> e, variant |-> "none", block_size |-> 0 ]

\* A _build_strategy without its own checks.
BuildStrategyUnchecked(a) ==
  IF a.strategy = "copy" THEN Built("copy", 0)
  ELSE LET bs == IF a.block_size # << >> THEN a.block_size[1] ELSE 65536
       IN  IF DeltaInit(bs) # "none" THEN NotBuilt(DeltaInit(bs))
           ELSE Built("delta", bs)

\* _build_strategy(args)
BuildStrategy(a) ==
  IF a.strategy = "copy"
  THEN IF a.block_size # << >> THEN NotBuilt("SyncError")
       ELSE Built("copy", 0)
  ELSE IF a.block_size # << >> /\ a.block_size[1] <= 0
       THEN NotBuilt("SyncError")
       ELSE LET bs == IF a.block_size # << >> THEN a.block_size[1] ELSE 65536
            IN  IF DeltaInit(bs) # "none" THEN NotBuilt(DeltaInit(bs))
                ELSE Built("delta", bs)

\* _format_relative(path, root): the path below the root, '.' for the root
\* itself, the whole path when it is not below the root.
FormatRelative(path, root) ==
  IF Len(root) <= Len(path) /\ SubSeq(path, 1, Len(root)) = root
  THEN IF path = root THEN << "." >>
       ELSE SubSeq(path, Len(root) + 1, Len(path))
  ELSE path

\* The labels dictionary of _make_console_reporter.
Labels ==
  ("create_dir" :> "create dir") @@ ("copy_file" :> "copy file")
  @@ ("update_file" :> "update file") @@ ("remove_file" :> "remove file")
  @@ ("remove_dir" :> "remove dir") @@ ("skip_file" :> "skip file")
  @@ ("skip_dir" :> "skip dir")

\* The line printed for a label: prefix + f'{label}: {target_display}' and,
\* for an action with a source, f' (from {source_display})'; a line is the
\* sequence of its pieces.
ConsoleLine(dry, label, path, src) ==
  << IF dry THEN "DRY RUN: " ELSE "", label, ": ",
     FormatRelative(path, << "dst" >>) >>
  \o (IF src # << >>
      THEN << " (from ", FormatRelative(src, << "src" >>), ")" >>
      ELSE << >>)

\* reporter(action): labels[action.kind] raises KeyError for a kind that is
\* not in the dictionary.
ConsoleReporter(dry, kind, path, src) ==
  IF kind \notin DOMAIN Labels
  THEN [ exc |-> "KeyError", line |-> << >> ]
  ELSE [ exc |-> "none", line |-> ConsoleLine(dry, Labels[kind], path, src) ]

\* reporter = None unless --dry-run or --verbose
HasReporter == args.dry_run \/ args.verbose

\* A command line, or a direct DeltaSynchronizer(block_size=...) call.
InitCli ==
  /\ args \in [ strategy : { "copy", "delta" }, block_size : BlockSizeArgs,
                dry_run : BOOLEAN, verbose : BOOLEAN ]
  /\ cpc \in { "build", "construct" }
  /\ cpc = "construct" =>
       (args.strategy = "delta" /\ args.block_size # << >>
        /\ ~args.dry_run /\ ~args.verbose)
  /\ cerr = "none" /\ exit_status = -1 /\ console = << >> /\ performed = 0
  /\ variant = "none" /\ block_size = 0
  /\ inputs = {} /\ paths = {}
  /\ stats = [ k \in LedgerKeys |-> NoStats ]
  /\ fs = [ f \in Files |-> Absent ]
  /\ pc = "idle" /\ err = "none" /\ prevSrc = NoPrev /\ last_ok = NoCalls
  /\ LocalsIdle
  /\ TreeOff

\* base_strategy = _build_strategy(args); an exception is caught by main()'s
\* handlers, which print it and return 1.
CliBuild ==
  /\ cpc = "build"
  /\ LET r == BuildStrategy(args)
     IN  IF r.exc # "none"
         THEN /\ cpc' = "exited" /\ cerr' = r.exc /\ exit_status' = 1
              /\ UNCHANGED << variant, block_size >>
         ELSE /\ cpc' = "sync" /\ variant' = r.variant
              /\ block_size' = r.block_size
              /\ UNCHANGED << cerr, exit_status >>
  /\ UNCHANGED << args, console, performed, treeVars, inputs, paths, stats, fs,
                  pc, err, callVars, histVars, scanVars >>

\* DeltaSynchronizer(block_size=n) called directly.
Construct ==
  /\ cpc = "construct"
  /\ LET e == DeltaInit(args.block_size[1])
     IN  IF e # "none"
         THEN /\ cpc' = "raised" /\ cerr' = e
              /\ UNCHANGED << variant, block_size >>
         ELSE /\ cpc' = "constructed" /\ variant' = "delta"
              /\ block_size' = args.block_size[1]
              /\ UNCHANGED cerr
  /\ UNCHANGED << args, exit_status, console, performed, treeVars, inputs,
                  paths, stats, fs, pc, err, callVars, histVars, scanVars >>

\* sync() reports an action and, unless it is a dry run or a skip, performs
\* it; an exception of the reporter that is not an OSError leaves sync() as
\* it is and is caught by main()'s `except Exception`.
CliSyncStep ==
  /\ cpc = "sync"
  /\ Len(reports) < MaxActions
  /\ \E kind \in SyncActionKinds :
       LET path == << "dst", "f" >>
           r == ConsoleReporter(args.dry_run, kind, path, SourceOf(kind, path))
       IN  /\ kind \in SkipKinds => args.verbose
           /\ reports' = Append(reports, << kind, path >>)
           /\ IF HasReporter /\ r.exc # "none"
              THEN /\ cpc' = "exited" /\ cerr' = r.exc /\ exit_status' = 1
                   /\ UNCHANGED << console, performed >>
              ELSE /\ console' = IF HasReporter THEN Append(console, r.line)
                                 ELSE console
                   /\ performed' = IF args.dry_run \/ kind \in SkipKinds
                                   THEN performed ELSE performed + 1
                   /\ UNCHANGED << cpc, cerr, exit_status >>
  /\ UNCHANGED << args, fileVars, disk, disk0, dry_run, wpc, werr, walkVars,
                  tracked_dirs, metadata_targets, calls, rm_items, first >>

\* sync() raises SyncError: main() prints it and returns 1.
CliSyncError ==
  /\ cpc = "sync"
  /\ cpc' = "exited" /\ cerr' = "SyncError" /\ exit_status' = 1
  /\ UNCHANGED << args, console, performed, fileVars, treeVars >>

\* sync() returns: main() returns 0.
CliReturn ==
  /\ cpc = "sync"
  /\ cpc' = "exited" /\ exit_status' = 0
  /\ UNCHANGED << args, cerr, console, performed, fileVars, treeVars >>

NextCli ==
  CliBuild \/ Construct \/ CliSyncStep \/ CliSyncError \/ CliReturn

SpecCli == InitCli /\ [][NextCli]_vars

---------------------------------------------------------------------------
(* Properties of main(), checked under SpecCli.                            *)

\* The command line is a BadArgument: a non-positive block size, or a block
\* size given together with the copy strategy.
BadArgument ==
  /\ args.block_size # << >>
  /\ args.block_size[1] <= 0 \/ args.strategy = "copy"

(* C25: a non-positive block size, or a block size given with the copy     *)
(* strategy, is rejected before any change: once _build_strategy has run   *)
(* the CLI has returned exit status 1, sync has reported and performed     *)
(* nothing; a direct construction with block_size <= 0 has raised; and a   *)
(* delta strategy that exists has a positive block size.                   *)
BadArgumentRejected ==
  /\ (BadArgument /\ cpc \notin { "off", "build", "construct" }) =>
       /\ cpc \in { "exited", "raised" }
       /\ cpc = "exited" => exit_status = 1
       /\ cerr # "none"
       /\ reports = << >> /\ console = << >> /\ performed = 0
  /\ variant = "delta" => block_size >= 1

\* The CLI has returned 1 for a positive block size given with the copy
\* strategy, before sync() was called.
CopyWithBlockSizeRejected ==
  /\ cpc = "exited" /\ exit_status = 1 /\ cerr = "SyncError"
  /\ args.strategy = "copy" /\ args.block_size = << 1 >>
  /\ reports = << >> /\ performed = 0

\* The label the reporter is to print for a kind.
ExpectedLabel ==
  Labels @@ ("create_symlink" :> "create symlink")
  @@ ("update_symlink" :> "update symlink")
  @@ ("skip_symlink" :> "skip symlink")

(* C26 as stated: the console reporter accepts every action kind sync can  *)
(* report and prints one line '<label>: <path> (from <source>)' for it,    *)
(* prefixed with 'DRY RUN: ' in dry-run mode; no reported action makes the *)
(* reporter fail.                                                          *)
ReporterAcceptsEveryKind ==
  (cpc # "off" /\ HasReporter) =>
    /\ cerr # "KeyError"
    /\ Len(console) = Len(reports)
    /\ \A i \in 1..Len(console) :
         console[i] = ConsoleLine(args.dry_run, ExpectedLabel[reports[i][1]],
                                  reports[i][2],
                                  SourceOf(reports[i][1], reports[i][2]))

---------------------------------------------------------------------------
(* Properties of the scan of _write_delta, checked under Spec.             *)

\* The full-size blocks of a destination buffer: buffer[k*bs : k*bs + bs]
\* for every k with k*bs + bs <= len(buffer).
FullBlocks(buffer, bs) ==
  { Slice(buffer, k * bs, k * bs + bs) : k \in 0..((Len(buffer) \div bs) - 1) }

\* The block_size-byte window of the source at position j.
WindowAt(j) == Slice(src_buf, j, j + block_size)

\* The bytes of the temp file.
TempData == fs[temp_path].data

(* C28: the delta scan is greedy forward and non-overlapping: each copy is *)
(* taken at the earliest source position, at or after the end of the       *)
(* previous copy (or 0), whose block_size-byte window equals a full-size   *)
(* destination block; no window probed without a match equals a full-size  *)
(* destination block; idx and last_emitted never decrease; the source      *)
(* ranges covered by copies never overlap.                                 *)
ScanGreedyForward ==
  [][ (pc = "scan" /\ pc' \in { "scan", "flush" }) =>
        /\ idx' >= idx
        /\ last_emitted' >= last_emitted
        /\ last_emitted <= idx
        /\ copy_out' # copy_out =>
              /\ WindowAt(idx) \in FullBlocks(dst_buf, block_size)
              /\ \A j \in last_emitted..(idx - 1) :
                    WindowAt(j) \notin FullBlocks(dst_buf, block_size)
              /\ idx' = idx + block_size
              /\ last_emitted' = idx + block_size
              /\ TempData' = TempData \o Slice(src_buf, last_emitted, idx)
                                      \o WindowAt(idx)
        /\ (copy_out' = copy_out /\ idx + block_size <= Len(src_buf)) =>
              /\ WindowAt(idx) \notin FullBlocks(dst_buf, block_size)
              /\ last_emitted' = last_emitted
              /\ idx' \in { idx, idx + 1 }
              /\ idx' = idx => pc' = "flush"
    ]_vars

\* The scan has copied two blocks with a literal span between them: the
\* second copy was found by rolling the window forward from the end of the
\* first.
CopiedAfterRolling ==
  /\ pc = "flush"
  /\ copy_out = 2 * block_size
  /\ lit_out > 0
  /\ last_emitted = copy_out + lit_out

\* The length of the final destination block when it is shorter than
\* block_size, 0 when the destination is a whole number of blocks.
ShortTail(buffer, bs) == Len(buffer) % bs

(* C29: every copy emitted by the delta scan copies exactly block_size     *)
(* bytes from a destination offset that is a multiple of block_size with   *)
(* offset + block_size <= M; a final destination block shorter than        *)
(* block_size is never matched, even when the bytes at the source tail     *)
(* equal it, and the source tail past the last copy is emitted as a        *)
(* literal.                                                                *)
CopiesAreAlignedFullBlocks ==
  [][ /\ (pc = "scan" /\ idx + block_size <= Len(src_buf) /\ Probe # NoMatch) =>
            /\ Probe.length = block_size
            /\ Probe.offset % block_size = 0
            /\ Probe.offset >= 0
            /\ Probe.offset + block_size <= Len(dst_buf)
      /\ copy_out' > copy_out =>
            /\ pc = "scan"
            /\ copy_out' = copy_out + block_size
            /\ TempData' = TempData \o Slice(src_buf, last_emitted, idx)
                              \o Slice(dst_buf, Probe.offset,
                                                Probe.offset + block_size)
      /\ (pc = "flush" /\ pc' = "close_tmp") =>
            /\ TempData' = TempData \o Slice(src_buf, last_emitted, Len(src_buf))
            /\ lit_out' = lit_out + (Len(src_buf) - last_emitted)
            /\ copy_out' = copy_out
    ]_vars

\* The scan ran over a destination whose final block is short and equal to
\* the bytes at the end of the source; those bytes went out as a literal.
ShortTailLiteral ==
  /\ ReconDone
  /\ Len(source.data) >= block_size
  /\ LET t == ShortTail(dst0.data, block_size)
         N == Len(source.data)
         M == Len(dst0.data)
     IN  /\ t > 0 /\ M > block_size /\ N >= t
         /\ Slice(source.data, N - t, N) = Slice(dst0.data, M - t, M)
         /\ lit_out >= t
         /\ Entry.bytes_transferred = lit_out
         /\ N - last_emitted >= t

\* The destination of the running call existed as a regular file and is
\* empty, or the source is non-empty, shorter than block_size and differs
\* from the destination.
NothingToMatch ==
  /\ dst0.kind = "file"
  /\ \/ Len(dst0.data) = 0
     \/ /\ 0 < Len(source.data) /\ Len(source.data) < block_size
        /\ source.data # dst0.data

(* C30: when the destination exists but is empty, or the source is         *)
(* non-empty, shorter than block_size and differs from the destination, no *)
(* matching is attempted and the whole source is written as one literal    *)
(* span: bytes_transferred = N and bytes_reused = 0.                       *)
NoMatchingForSmallInputs ==
  /\ (variant = "delta" /\ NothingToMatch) =>
        /\ pc # "scan"
        /\ copy_out = 0
        /\ pc \in { "close_tmp", "release", "replace", "copystat" } =>
              /\ lit_out = Len(source.data)
              /\ literal_bytes = Len(source.data)
              /\ idx = 0 /\ last_emitted = 0
        /\ (pc = "close_tmp" /\ fs[temp_path].kind = "file") =>
              TempData = source.data
        /\ pc = "done" =>
              /\ Entry = SyncStats(Len(source.data), Len(source.data), 0)
              /\ fs[destination].data = source.data
  /\ pc = "scan" => Len(dst_buf) > 0 /\ Len(src_buf) >= block_size

\* A source shorter than one block replaced a different destination of at
\* least one block, as a single literal.
ShortSourceLiteral ==
  /\ ReconDone
  /\ NothingToMatch
  /\ Len(dst0.data) >= block_size
  /\ lit_out = Len(source.data)
  /\ Entry = SyncStats(Len(source.data), Len(source.data), 0)

\* A non-empty source replaced an empty destination, as a single literal.
EmptyDestinationLiteral ==
  /\ ReconDone
  /\ dst0.kind = "file" /\ Len(dst0.data) = 0
  /\ Len(source.data) >= block_size
  /\ Entry = SyncStats(Len(source.data), Len(source.data), 0)

---------------------------------------------------------------------------
(* Properties of the block index, checked under Spec.                      *)

\* The entries of an index: (weak value, position in its candidate list).
IndexEntries(sigs) ==
  UNION { { << w, i >> : i \in 1..Len(sigs[w]) } : w \in DOMAIN sigs }

\* ceil(m / b)
CeilDiv(m, b) == (m + b - 1) \div b

\* The index of the running call has been built and is still in use.
IndexBuilt ==
  pc \in { "mktemp", "literal_all", "scan", "flush", "close_tmp", "release",
           "replace", "copystat" }

(* C31: the block index over a destination of length M with block size B   *)
(* has exactly ceil(M/B) signatures; their ranges start at the consecutive *)
(* multiples of B, do not overlap and cover [0, M); every block has length *)
(* B except possibly the last, which is never empty; each weak value is    *)
(* the checksum of the block computed with the block's own length as the   *)
(* window length; an empty destination yields an empty index.              *)
IndexPartitionsDestination ==
  IndexBuilt =>
    LET M == Len(dst_buf)
        B == block_size
        E == IndexEntries(signatures)
        n == CeilDiv(M, B)
    IN  /\ Cardinality(E) = n
        /\ M = 0 => signatures = << >>
        /\ \A k \in 0..(n - 1) :
             \E e \in E :
               /\ signatures[e[1]][e[2]].offset = k * B
               /\ \A f \in E :
                    signatures[f[1]][f[2]].offset = k * B => f = e
        /\ \A e \in E :
             LET sig   == signatures[e[1]][e[2]]
                 block == Slice(dst_buf, sig.offset, sig.offset + sig.length)
             IN  /\ sig.offset % B = 0
                 /\ sig.offset >= 0 /\ sig.offset < M
                 /\ sig.length = Min(B, M - sig.offset)
                 /\ sig.length > 0
                 /\ sig.length < B => sig.offset + sig.length = M
                 /\ sig.strong = MD5(block)
                 /\ e[1] = Digest([ block_size |-> sig.length,
                                    s1 |-> SumBytes(block, sig.length) % MOD,
                                    s2 |-> WeightedSum(block, sig.length,
                                                       sig.length) % MOD ])

\* An index of a full block followed by a short final block has been built.
IndexWithShortTailBuilt ==
  /\ IndexBuilt
  /\ Len(dst_buf) % block_size # 0
  /\ Len(dst_buf) > block_size
  /\ Cardinality(IndexEntries(signatures)) = CeilDiv(Len(dst_buf), block_size)
  /\ \E e \in IndexEntries(signatures) :
       signatures[e[1]][e[2]].length < block_size

---------------------------------------------------------------------------
(* Order of the steps of the reconstruction path, checked under Spec.      *)

(* C32: on the reconstruction path the temp file is created next to the    *)
(* destination, all output is written and the temp file closed, the source *)
(* and destination read buffers are released, the temp file is renamed     *)
(* over the destination, metadata is copied from the source, and only then *)
(* stats are recorded; the rename never happens while the temp file is     *)
(* incomplete or a read buffer is still open.                              *)
ReconstructionOrder ==
  [][ /\ (temp_path = "" /\ temp_path' # "") =>
            /\ pc = "mktemp" /\ pc' \in { "literal_all", "scan" }
            /\ temp_path' \in Files \ Paths
            /\ fs'[temp_path'] = RegularFile(<< >>, "fresh")
            /\ tmp_open' /\ bufs' = { "src", "dst" }
            /\ fs'[destination] = fs[destination]
      /\ (tmp_open /\ ~tmp_open' /\ pc' \notin { "raised", "idle" }) =>
            /\ pc = "close_tmp" /\ pc' = "release"
            /\ bufs' = { "src", "dst" }
            /\ fs[temp_path].kind = "file" => TempData = source.data
            /\ fs'[destination] = dst0
      /\ (bufs # {} /\ bufs' = {} /\ pc' \notin { "raised", "idle" }) =>
            /\ pc = "release" /\ pc' = "replace"
            /\ ~tmp_open
            /\ fs'[destination] = dst0
      /\ (pc = "replace" /\ pc' = "copystat") =>
            /\ ~tmp_open /\ bufs = {}
            /\ TempData = source.data
            /\ fs[destination] = dst0
            /\ fs'[destination].data = source.data
            /\ fs'[temp_path] = Absent
            /\ stats' = stats
      /\ (stats' # stats /\ temp_path # "") =>
            /\ pc = "copystat" /\ pc' = "done"
            /\ fs[destination].data = source.data
            /\ fs'[destination] = RegularFile(source.data, source.meta)
            /\ fs'[temp_path] = Absent
    ]_vars

\* A reconstruction has run through all its steps: the destination holds the
\* source's bytes and metadata, the temp file is gone, the buffers are
\* released and the entry is recorded.
ReconstructionCompleted ==
  /\ ReconDone
  /\ fs[destination] = RegularFile(source.data, source.meta)
  /\ dst0.data # source.data
  /\ fs[temp_path] = Absent
  /\ bufs = {} /\ ~tmp_open
  /\ Entry.total_bytes = Len(source.data)

---------------------------------------------------------------------------
(* Host interruption of a delta sync_file call.                            *)

\* A KeyboardInterrupt (SIGINT) is delivered while the temp file exists:
\* inside the with block of _write_delta, between _write_delta and
\* os.replace, or inside os.replace.  KeyboardInterrupt derives from
\* BaseException, so neither `except Exception` clause (strategy.py:111,
\* 173) runs; the with blocks close the temp file (delete=False keeps it)
\* and release the buffers, and the interrupt leaves sync_file.  Nothing in
\* main() catches it either: the process ends.
DeltaInterrupt ==
  /\ pc \in { "literal_all", "scan", "flush", "close_tmp", "release", "replace" }
  /\ pc' = "interrupted"
  /\ err' = "KeyboardInterrupt"
  /\ ScanReset
  /\ UNCHANGED << cliVars, treeVars, config, stats, fs, callVars, histVars >>

NextInterrupt == Next \/ DeltaInterrupt

SpecInterrupt == Init /\ [][NextInterrupt]_vars

(* C33: if a delta sync_file call is aborted by a host interruption while  *)
(* the temp file exists, the temp file is removed before the call exits:   *)
(* no exit of sync_file other than the successful rename leaves a temp     *)
(* file next to the destination.                                           *)
NoTempFileLeftBehind ==
  pc \in { "done", "raised", "interrupted" } => fs[TmpName].kind = "absent"

---------------------------------------------------------------------------
(* The calls of strategy.sync_file made by sync(), checked under SpecTree. *)

\* The targets of the regular files of the source tree.
SourceFileTargets ==
  { DstRoot \o p : p \in { q \in TreePaths : SrcEntry(q).kind = "file" } }

\* The positions of the calls of sync_file made for a target.
CallsFor(target) == { i \in 1..Len(calls) : calls[i][1] = target }

(* C34: in a non-dry-run sync the walker calls strategy.sync_file exactly  *)
(* once for every regular file of the source tree that is not a symbolic   *)
(* link, files whose destination copy is already identical included, one   *)
(* call after the other in the order of the walk (top-down: the files of a *)
(* directory before those of its subdirectories); no other call is made.   *)
EverySourceFileSynced ==
  /\ (~dry_run /\ wpc \in { "metadata", "extraneous", "remove", "done" }) =>
        \A t \in SourceFileTargets : Cardinality(CallsFor(t)) = 1
  /\ \A i \in 1..Len(calls) :
        /\ calls[i][1] \in SourceFileTargets
        /\ CallsFor(calls[i][1]) = { i }
        /\ \A j \in 1..Len(calls) :
             i < j => Len(calls[i][1]) <= Len(calls[j][1])

\* A sync has completed in which sync_file was called for a file whose
\* destination copy was identical (nothing was reported for it) and for a
\* file that had to be copied.
IdenticalFileSynced ==
  /\ SyncDone
  /\ Len(calls) >= 2
  /\ \E p \in TreePaths :
       /\ SrcEntry(p).kind = "file"
       /\ DstEntry0(p).kind = "file"
       /\ DstEntry0(p).data = SrcEntry(p).data
       /\ Cardinality(CallsFor(DstRoot \o p)) = 1
       /\ ~Reported({ "copy_file", "update_file" }, DstRoot \o p)
  /\ \E p \in TreePaths : Reported({ "copy_file" }, DstRoot \o p)

---------------------------------------------------------------------------
(* Two sync() calls in a row on the same trees.                            *)

\* sync(source, destination, strategy, dry_run=False) is called again once
\* a first call has returned; nothing else touched the trees in between.
SyncAgain ==
  /\ wpc = "done"
  /\ ~first.ran
  /\ first' = [ ran |-> TRUE, dry_run |-> dry_run, reports |-> reports ]
  /\ dry_run' = FALSE
  /\ disk0' = disk
  /\ wpc' = "start" /\ werr' = "none"
  /\ walk_queue' = << >> /\ root_path' = << >>
  /\ dirnames' = {} /\ filenames' = {}
  /\ tracked_dirs' = {} /\ metadata_targets' = {}
  /\ reports' = << >> /\ calls' = << >> /\ rm_items' = {}
  /\ UNCHANGED << cliVars, fileVars, disk >>

NextTwice == NextTree \/ SyncAgain

SpecTwice == InitTree /\ [][NextTwice]_vars

\* The kinds of action that change the destination.
ChangeKinds ==
  { "create_dir", "copy_file", "update_file", "create_symlink",
    "update_symlink", "remove_file", "remove_dir" }

\* How often an action of a kind was reported for a path.
CountReports(seq, kind, path) ==
  Cardinality({ i \in 1..Len(seq) : seq[i][1] = kind /\ seq[i][2] = path })

\* A dry run and then a real run of the same trees have both returned.
PreviewedAndSynced == first.ran /\ first.dry_run /\ wpc = "done"

(* C35: a dry run is a faithful preview: from the same source and          *)
(* destination trees, the create, copy, update and remove actions reported *)
(* by sync with dry_run=True are those reported by sync with               *)
(* dry_run=False (compared action by action, whatever the order in which   *)
(* the entries of one directory are listed).                               *)
DryRunIsFaithfulPreview ==
  PreviewedAndSynced =>
    \A kind \in ChangeKinds, path \in Locs :
      CountReports(first.reports, kind, path) = CountReports(reports, kind, path)

---------------------------------------------------------------------------
(* The locals of the scan loop of _write_delta, checked under Spec.        *)

\* The loop of _write_delta is about to probe the index: its condition
\* idx + block_size <= src_len has just been found true.
AtProbe == pc = "scan" /\ idx + block_size <= Len(src_buf)

(* C36: at every probe of the index inside the scan loop the rolling       *)
(* checksum's digest equals the digest of a checksum freshly initialised   *)
(* over S[idx, idx + block_size), whatever one-byte rolls and post-match    *)
(* reinitialisations led to the probe.                                     *)
ChecksumTracksWindow ==
  AtProbe =>
    /\ Digest(checksum) = Digest(RollingChecksum(WindowAt(idx), block_size))
    /\ checksum.block_size = block_size

\* A probe reached by a reinitialisation after a match followed by a roll.
RolledAfterReinit ==
  /\ AtProbe
  /\ last_emitted > 0
  /\ idx > last_emitted
  /\ copy_out > 0
  /\ checksum = RollingChecksum(WindowAt(idx), block_size)

(* C37: in every iteration of the scan loop 0 <= last_emitted <= idx and   *)
(* idx + block_size <= N hold, and a roll is performed only when           *)
(* idx + block_size < N, so the scan never reads a source byte at an index *)
(* >= N and never emits a literal span with start > end.                   *)
ScanStaysInBounds ==
  [][ /\ pc' = "scan" =>
            /\ 0 <= last_emitted' /\ last_emitted' <= idx'
            /\ idx' + block_size <= Len(src_buf')
      /\ pc' = "flush" =>
            /\ 0 <= last_emitted' /\ last_emitted' <= idx'
            /\ last_emitted' <= Len(src_buf')
      /\ (pc = "scan" /\ pc' = "scan" /\ copy_out' = copy_out) =>
            /\ idx' = idx + 1
            /\ idx + block_size < Len(src_buf)
            /\ ByteAt(src_buf, idx) # -1
            /\ ByteAt(src_buf, idx + block_size) # -1
      /\ (pc = "scan" /\ copy_out' > copy_out) =>
            /\ last_emitted <= idx
            /\ idx + block_size <= Len(src_buf)
            /\ lit_out' = lit_out + (idx - last_emitted)
      /\ (pc = "flush" /\ pc' = "close_tmp") =>
            /\ last_emitted <= Len(src_buf)
            /\ lit_out' = lit_out + (Len(src_buf) - last_emitted)
    ]_vars

\* The scan rolled up to the last window of the source and stopped there
\* with a literal span still to flush.
RolledToLastWindow ==
  /\ pc = "flush"
  /\ idx > 0
  /\ idx + block_size = Len(src_buf)
  /\ last_emitted < idx

---------------------------------------------------------------------------
(* The ledger and failing calls, checked under Spec.                       *)

(* C38: whenever the delta strategy's sync_file raises (symlink refusal, a *)
(* failure while writing the temp file, a rename failure, a metadata copy  *)
(* failure) the ledger is what it was before the call: an entry is written *)
(* only as the last step of a successful call.                             *)
LedgerWrittenLast ==
  [][ /\ stats' # stats =>
            /\ variant = "delta"
            /\ pc \notin { "done", "raised" } /\ pc' = "done"
            /\ \A k \in LedgerKeys : k # destination_path' => stats'[k] = stats[k]
      /\ pc' \notin { "done", "idle" } => stats' = stats
      /\ pc = "done" => stats' = stats /\ pc' = "idle"
      /\ pc = "raised" => stats' = stats /\ pc' = "idle"
    ]_vars

\* A call failed at the metadata copy, after the rename: the destination
\* holds the new bytes and the ledger still has the entry of the previous
\* successful call.
RaisedWithLedgerKept ==
  /\ pc = "raised" /\ variant = "delta"
  /\ err = "OSError: copystat"
  /\ Entry # NoStats
  /\ last_ok[destination] = Entry.total_bytes
  /\ fs[destination].data = source.data
  /\ Len(source.data) # Entry.total_bytes

---------------------------------------------------------------------------
(* A repeated sync(), checked under SpecTwice.                             *)

\* Kind, content and link target of an entry (its metadata left out).
Shape(node) == << node.kind, node.data, node.text >>

\* A real sync has returned and the same call is running or has run again.
Repeated == first.ran /\ ~first.dry_run

(* C39: tree-level idempotence: after a non-dry-run sync has completed     *)
(* without error, an immediately repeated sync of the same unchanged       *)
(* source reports no create_dir, copy_file, update_file, create_symlink,   *)
(* update_symlink, remove_file or remove_dir action and leaves every       *)
(* destination entry's kind, content and link target unchanged.            *)
TreeIdempotence ==
  Repeated =>
    /\ \A i \in 1..Len(reports) : reports[i][1] \notin ChangeKinds
    /\ \A l \in DstLocs : Shape(disk[l]) = Shape(disk0[l])
    /\ \A l \in ExtLocs \cup SrcLocs : disk[l] = disk0[l]

---------------------------------------------------------------------------
(* Termination of the scan loop: one reconstruction call that runs without *)
(* failures, its steps taken as long as they are enabled.                  *)

InitScan == Init /\ variant = "delta"

NextScan ==
  \/ DeltaReconstruct \/ DeltaOpenBuffers \/ DeltaMakeTemp
  \/ DeltaLiteralAll \/ ScanMatch \/ ScanRoll \/ ScanStop \/ DeltaFlush
  \/ DeltaCloseTemp \/ DeltaRelease \/ DeltaReplace \/ DeltaFinish

\* sync_file runs on one thread that keeps executing: an iteration of the
\* loop that can be taken is taken, and so is the flush after the loop.
SpecScan ==
  /\ InitScan /\ [][NextScan]_vars
  /\ WF_vars(ScanMatch \/ ScanRoll \/ ScanStop)
  /\ WF_vars(DeltaFlush)

\* The iterations of the loop completed so far: one per block copied and
\* one per byte rolled.
Iterations == (copy_out \div block_size) + (idx - copy_out)

(* C40: for every source, destination and block_size >= 1 the scan loop    *)
(* terminates: idx strictly increases on every iteration (by 1 on a miss,  *)
(* by block_size on a match), the loop exits after at most                 *)
(* N - block_size + 1 iterations, and the remaining tail is then flushed   *)
(* once.                                                                   *)
ScanLoopTerminates ==
  /\ [][ /\ (pc = "scan" /\ pc' = "scan") =>
               /\ idx' > idx
               /\ idx' - idx = (IF copy_out' > copy_out THEN block_size ELSE 1)
               /\ Iterations' = Iterations + 1
               /\ Iterations' <= Len(src_buf) - block_size
         /\ (pc = "scan" /\ pc' = "flush") =>
               /\ idx' = idx + (IF copy_out' > copy_out THEN block_size ELSE 0)
               /\ Iterations + 1 <= Len(src_buf) - block_size + 1
         /\ pc = "flush" => pc' = "close_tmp"
         /\ pc \in { "close_tmp", "release", "replace", "copystat", "done" } =>
               pc' \notin { "scan", "flush" }
       ]_vars
  /\ (pc = "scan") ~> (pc = "close_tmp")

\* The loop ended after the largest number of iterations a source allows,
\* N - block_size + 1 with N > block_size, and the tail has been flushed.
ScanRanToTheEnd ==
  /\ pc = "close_tmp"
  /\ Len(src_buf) > block_size
  /\ copy_out = 0
  /\ Iterations + 1 = Len(src_buf) - block_size + 1
  /\ lit_out = Len(src_buf)

====
